---- MODULE Spec2Model ----
(***************************************************************************)
(* Article acquisition pipeline of news_fetcher: the text normalizer,      *)
(* deduplication, the TTL file cache, fetch_article and search_feeds.      *)
(*                                                                         *)
(* Strings are sequences of one-character strings, so that length, prefix, *)
(* slicing and stripping are computed as the Python code computes them.    *)
(***************************************************************************)
EXTENDS Integers, Sequences, FiniteSets, TLC

VARIABLES now, ticks, feedCache, articleCache, last, disk, inv, written

vars == <<now, ticks, feedCache, articleCache, last, disk, inv, written>>

(***************************************************************************)
(* Character-level helpers (Python str methods)                            *)
(***************************************************************************)
Https == <<"h","t","t","p","s",":","/","/">>
Http == <<"h","t","t","p",":","/","/">>
WwwDot == <<"w","w","w",".">>
UpperAlphabet == <<"A","B","C","D","E","F","G","H","I","J","K","L","M","N","O","P","Q","R","S","T","U","V","W","X","Y","Z">>
LowerAlphabet == <<"a","b","c","d","e","f","g","h","i","j","k","l","m","n","o","p","q","r","s","t","u","v","w","x","y","z">>
HexDigits == <<"0","1","2","3","4","5","6","7","8","9","a","b","c","d","e","f">>

\* whitespace matched by \s and a control character (category Cc) that is
\* not whitespace
Whitespace == {" ", "\t", "\n"}
ControlChars == {"NUL"}
AmpEntity == <<"&","a","m","p",";">>

\* s[:n]
Take(s, n) == IF Len(s) <= n THEN s ELSE SubSeq(s, 1, n)

\* s[n:]
Drop(s, n) == IF Len(s) <= n THEN <<>> ELSE SubSeq(s, n + 1, Len(s))

\* s.startswith(p)
StartsWith(s, p) == Len(s) >= Len(p) /\ SubSeq(s, 1, Len(p)) = p

\* s.rstrip(c): every trailing occurrence of c is removed
RECURSIVE RStrip(_, _)
RStrip(s, c) ==
    IF s # <<>> /\ s[Len(s)] = c THEN RStrip(SubSeq(s, 1, Len(s) - 1), c) ELSE s

\* s.strip(): leading and trailing whitespace removed
RECURSIVE StripRight(_)
StripRight(s) ==
    IF s # <<>> /\ s[Len(s)] \in Whitespace THEN StripRight(SubSeq(s, 1, Len(s) - 1)) ELSE s

RECURSIVE StripLeft(_)
StripLeft(s) ==
    IF s # <<>> /\ s[1] \in Whitespace THEN StripLeft(Tail(s)) ELSE s

Strip(s) == StripLeft(StripRight(s))

\* the positions 1..Len(s), in increasing order
Indices(s) == [i \in 1..Len(s) |-> i]

\* re.sub(r'\s+', ' ', s): every run of whitespace becomes one space
CollapseWhitespace(s) ==
    LET FirstOfRun(i) == s[i] \notin Whitespace \/ i = 1 \/ s[i - 1] \notin Whitespace
        kept == SelectSeq(Indices(s), FirstOfRun)
    IN  [k \in 1..Len(kept) |-> IF s[kept[k]] \in Whitespace THEN " " ELSE s[kept[k]]]

\* ''.join(char for char in text if category(char)[0] != 'C' or char in '\n\r\t')
RemoveControl(s) == SelectSeq(s, LAMBDA ch : ch \notin ControlChars)

\* html.unescape, for the entity &amp;: the text "&amp;" becomes "&"
HtmlUnescape(s) ==
    LET EntityAt(j) == j >= 1 /\ j + Len(AmpEntity) - 1 <= Len(s)
                       /\ SubSeq(s, j, j + Len(AmpEntity) - 1) = AmpEntity
        Outside(i) == \A j \in (i - Len(AmpEntity) + 1)..(i - 1) : ~EntityAt(j)
    IN  LET kept == SelectSeq(Indices(s), Outside) IN [k \in 1..Len(kept) |-> s[kept[k]]]

LowerChar(ch) ==
    IF \E i \in 1..Len(UpperAlphabet) : UpperAlphabet[i] = ch
    THEN LowerAlphabet[CHOOSE i \in 1..Len(UpperAlphabet) : UpperAlphabet[i] = ch]
    ELSE ch

\* s.lower()
Lower(s) == [i \in 1..Len(s) |-> LowerChar(s[i])]

(***************************************************************************)
(* utils.py: clean_text, normalize_url, extract_domain                     *)
(***************************************************************************)
clean_text(text) ==
    IF text = <<>> THEN <<>>
    ELSE HtmlUnescape(RemoveControl(CollapseWhitespace(Strip(text))))

HasScheme(url) == StartsWith(url, Http) \/ StartsWith(url, Https)

normalize_url(url) ==
    IF url = <<>> THEN <<>>
    ELSE RStrip(IF HasScheme(url) THEN url ELSE Https \o url, "/")

\* urlparse(u).netloc: the characters between "//" and the next "/", "?" or "#"
RECURSIVE UpToDelimiter(_)
UpToDelimiter(s) ==
    IF s = <<>> \/ s[1] \in {"/", "?", "#"} THEN <<>>
    ELSE <<s[1]>> \o UpToDelimiter(Tail(s))

Netloc(u) ==
    IF StartsWith(u, Https) THEN UpToDelimiter(Drop(u, Len(Https)))
    ELSE IF StartsWith(u, Http) THEN UpToDelimiter(Drop(u, Len(Http)))
    ELSE <<>>

extract_domain(url) ==
    IF url = <<>> THEN <<>>
    ELSE LET domain == Lower(Netloc(normalize_url(url)))
         IN IF StartsWith(domain, WwwDot) THEN Drop(domain, Len(WwwDot)) ELSE domain

(***************************************************************************)
(* Strings of the model                                                    *)
(***************************************************************************)
Prefix50 == <<"B","r","e","a","k","i","n","g"," ","N","e","w","s"," ","A","b","o","u","t"," ","T","h","e"," ","E","c","o","n","o","m","y"," ","A","n","d"," ","M","a","r","k","e","t","s"," ","T","o","d","a","y"," ">>
TitleExtra == Prefix50 \o <<"E","x","t","r","a">>
TitleOther == Prefix50 \o <<"O","t","h","e","r">>
TitleShort == <<"H","i">>
TitleSpaced == <<" ","h","i","\t"," ">>
TitleEmpty == <<>>
TitleYo == <<"Y","o">>
TitleOk == <<"O","&","a","m","p",";","k">>
TitleUp == <<"U","NUL","p">>

\* hashlib.md5(s.encode()).hexdigest(): 32 hexadecimal characters, taken to
\* be collision free; the digest of the i-th string of HashUniverse is the
\* i-th hexadecimal digit repeated 32 times
Digest(i) == [k \in 1..32 |-> HexDigits[i]]

\* a title that happens to spell the digest of the normalized TitleExtra
TitleDigest == Digest(1)

HashUniverse ==
    << Lower(clean_text(TitleExtra)), Lower(clean_text(TitleOther)),
       Lower(clean_text(TitleShort)), TitleDigest, <<>>,
       Lower(clean_text(TitleYo)), Lower(clean_text(TitleOk)),
       Lower(clean_text(TitleUp)) >>

Md5(s) == Digest(CHOOSE i \in 1..Len(HashUniverse) : HashUniverse[i] = s)

UrlEmpty == <<>>
UrlA == <<"a",".","c","o">>
UrlASlash == Https \o <<"a",".","c","o","/">>
UrlWwwA == Http \o <<"W","W","W",".","a",".","c","o","/","x">>
UrlB == Https \o <<"b",".","c","o">>

(***************************************************************************)
(* utils.py: deduplicate_articles                                          *)
(***************************************************************************)
UrlSeenNever(normalized_url, seen_urls) == FALSE

\* if normalized_url and normalized_url in seen_urls
UrlSeen(normalized_url, seen_urls) ==
    normalized_url # <<>> /\ normalized_url \in seen_urls

\* the loop over seen_titles, which holds the hex digests of the titles
IsSimilar(normalized_title, seen_titles) ==
    \E existing_title \in seen_titles :
        /\ Len(normalized_title) > 20
        /\ Len(existing_title) > 20
        /\ Take(normalized_title, 50) = Take(existing_title, 50)

DedupStep(st, article) ==
    LET normalized_url == normalize_url(article.url)
        normalized_title == Lower(clean_text(article.title))
        title_hash == Md5(normalized_title)
    IN  IF UrlSeen(normalized_url, st.seen_urls) THEN st
        ELSE IF title_hash \in st.seen_titles THEN st
        ELSE IF IsSimilar(normalized_title, st.seen_titles) THEN st
        ELSE [seen_urls |-> IF normalized_url # <<>>
                            THEN st.seen_urls \cup {normalized_url}
                            ELSE st.seen_urls,
              seen_titles |-> IF normalized_title # <<>>
                              THEN st.seen_titles \cup {title_hash}
                              ELSE st.seen_titles,
              deduped |-> Append(st.deduped, article)]

RECURSIVE DedupLoop(_, _)
DedupLoop(st, articles) ==
    IF articles = <<>> THEN st
    ELSE DedupLoop(DedupStep(st, Head(articles)), Tail(articles))

deduplicate_articles(articles) ==
    DedupLoop([seen_urls |-> {}, seen_titles |-> {}, deduped |-> <<>>], articles).deduped

(***************************************************************************)
(* Cache files (config.py get_cache_path, tools.py json.dump / json.load)  *)
(*                                                                         *)
(* A file is absent, holds text that is not JSON, or holds a JSON value.   *)
(* A JSON object is a record whose DOMAIN is its key set; a timestamp      *)
(* string written by isoformat() parses back with fromisoformat().         *)
(***************************************************************************)
cache_ttl == 3600

Absent == [kind |-> "absent"]
Garbage == [kind |-> "garbage"]
JsonFile(v) == [kind |-> "json", val |-> v]
JsonList == [t |-> "list"]
JsonDict(d) == [t |-> "dict", d |-> d]

\* datetime.isoformat()
isoformat(t) == [t |-> "iso", at |-> t]

\* a string that is not an ISO date, and a JSON number
NotIsoString == [t |-> "badstr"]
JsonNumber == [t |-> "num"]

\* except (json.JSONDecodeError, KeyError, ValueError)
ExceptCaughtNoJson == {"KeyError", "ValueError"}

ExceptCaught == {"JSONDecodeError", "KeyError", "ValueError"}

\* datetime.now() - cache_time < timedelta(seconds=config.cache_ttl)
IsFreshInclusive(nowv, cache_time) == nowv - cache_time <= cache_ttl

IsFresh(nowv, cache_time) == nowv - cache_time < cache_ttl

\* json.load(f) followed by datetime.fromisoformat(cached_data['timestamp'])
LoadTimestamp(file) ==
    IF file.kind = "garbage" THEN [exc |-> "JSONDecodeError"]
    ELSE IF file.val.t # "dict" THEN [exc |-> "TypeError"]
    ELSE IF "timestamp" \notin DOMAIN file.val.d THEN [exc |-> "KeyError"]
    ELSE LET ts == file.val.d.timestamp
         IN  IF ts.t = "num" THEN [exc |-> "TypeError"]
             ELSE IF ts.t = "badstr" THEN [exc |-> "ValueError"]
             ELSE [exc |-> "none", cache_time |-> ts.at]

Return(v) == [kind |-> "return", value |-> v]
Raise(e) == [kind |-> "raise", exc |-> e]

(***************************************************************************)
(* tools.py: fetch_article                                                 *)
(***************************************************************************)
TextOf(n, ch) == [i \in 1..n |-> ch]

\* len(text.split())
WordCount(s) ==
    Cardinality({i \in 1..Len(s) :
        s[i] \notin Whitespace /\ (i = 1 \/ s[i - 1] \in Whitespace)})

\* hashlib.md5(url.encode()).hexdigest() names the cache file; the digest is
\* collision free, so the file is identified by the normalized URL
ArticleCacheKey(url) == normalize_url(url)

\* lines 202-212: the cache check
ArticleCacheCheck(file, nowv) ==
    IF file.kind = "absent" THEN [out |-> "miss"]
    ELSE LET lt == LoadTimestamp(file)
         IN  IF lt.exc = "none"
             THEN IF IsFresh(nowv, lt.cache_time)
                  THEN [out |-> "hit", data |-> file.val.d]
                  ELSE [out |-> "miss"]
             ELSE IF lt.exc \in ExceptCaught
                  THEN [out |-> "miss"]
                  ELSE [out |-> "raise", exc |-> lt.exc]

\* text_length > 200
SufficientFrom200(text_length) == text_length >= 200

Sufficient(text_length) == text_length > 200

NoArticle == [extraction_method |-> "none"]

\* lines 234-257: article_data after the Trafilatura block
PrimaryArticle(primary, url) ==
    IF primary.kind # "json" THEN NoArticle
    ELSE LET text == IF "text" \in DOMAIN primary.d THEN primary.d.text ELSE <<>>
         IN  IF Sufficient(Len(text))
             THEN [title |-> primary.d.title,
                   text |-> text,
                   url |-> url,
                   domain |-> extract_domain(url),
                   word_count |-> WordCount(text),
                   extraction_method |-> "trafilatura"]
             ELSE NoArticle

\* lines 260-306: article_data built by the Readability stage
FallbackArticle(fallback, url) ==
    [title |-> clean_text(fallback.title),
     text |-> clean_text(fallback.text_content),
     url |-> url,
     domain |-> extract_domain(url),
     word_count |-> WordCount(fallback.text_content),
     extraction_method |-> "readability"]

\* lines 310-314: article_data.update(...)
WithMetadata(article_data, nowv) ==
    [title |-> article_data.title,
     text |-> article_data.text,
     url |-> article_data.url,
     domain |-> article_data.domain,
     word_count |-> article_data.word_count,
     extraction_method |-> article_data.extraction_method,
     fetched_at |-> isoformat(nowv),
     success |-> TRUE,
     error |-> "None"]

ErrNoContent == "Failed to extract meaningful content from the article"
\* the message without the text of the exception
ErrFetchingNoText(e) == [msg |-> "Error fetching article: ", text |-> ""]

\* f"Error fetching article: {str(e)}"
ErrFetching(e) == [msg |-> "Error fetching article: ", text |-> e]

Failure(msg, url, nowv) ==
    [success |-> FALSE, error |-> msg, url |-> url, fetched_at |-> isoformat(nowv)]

\* the whole of fetch_article: the result, the cache file afterwards, the
\* number of HTTP requests issued and the extraction stages that were run;
\* http is "ok" or the exception that requests.get or raise_for_status raised
fetch_article(rawurl, file, nowv, http, primary, fallback) ==
    LET url == normalize_url(rawurl)
        chk == ArticleCacheCheck(file, nowv)
    IN  IF chk.out = "raise"
        THEN [result |-> Raise(chk.exc), file |-> file, net |-> 0, ran |-> <<>>]
        ELSE IF chk.out = "hit"
        THEN [result |-> Return(chk.data), file |-> file, net |-> 0, ran |-> <<>>]
        ELSE IF http # "ok"
        THEN [result |-> Return(Failure(ErrFetching(http), url, nowv)),
              file |-> file, net |-> 1, ran |-> <<>>]
        ELSE LET first == PrimaryArticle(primary, url)
                 ran == IF first = NoArticle
                        THEN <<"trafilatura", "readability">>
                        ELSE <<"trafilatura">>
             IN  IF first = NoArticle /\ fallback.kind = "raise"
                 THEN [result |-> Return(Failure(ErrFetching(fallback.exc), url, nowv)),
                       file |-> file, net |-> 1, ran |-> ran]
                 ELSE LET article_data == IF first = NoArticle
                                          THEN FallbackArticle(fallback, url)
                                          ELSE first
                      IN  IF article_data # NoArticle
                          THEN LET full == WithMetadata(article_data, nowv)
                               IN  [result |-> Return(full),
                                    file |-> JsonFile(JsonDict(full)), net |-> 1,
                                    ran |-> ran]
                          ELSE [result |-> Return(Failure(ErrNoContent, url, nowv)),
                                file |-> file, net |-> 1, ran |-> ran]

(***************************************************************************)
(* config.py: source resolution                                            *)
(***************************************************************************)
\* a in b, for Python strings
IsSubstring(a, b) ==
    \E i \in 0..(Len(b) - Len(a)) : SubSeq(b, i + 1, i + Len(a)) = a

RECURSIVE ConcatUrls(_)
ConcatUrls(lists) ==
    IF lists = <<>> THEN <<>> ELSE Head(lists) \o ConcatUrls(Tail(lists))

\* Config.get_sources_for_topic; config_sources lists the categories of
\* sources.json in file order
get_sources_for_topic(topic, config_sources) ==
    LET t == Lower(topic)
        exact == {i \in 1..Len(config_sources) : config_sources[i].category = t}
        matches == ConcatUrls([i \in 1..Len(config_sources) |->
                      IF IsSubstring(t, Lower(config_sources[i].category))
                         \/ IsSubstring(Lower(config_sources[i].category), t)
                      THEN config_sources[i].urls ELSE <<>>])
        general == {i \in 1..Len(config_sources) :
                      config_sources[i].category = <<"g","e","n","e","r","a","l">>}
    IN  IF exact # {} THEN config_sources[CHOOSE i \in exact : TRUE].urls
        ELSE IF matches # <<>> THEN matches
        ELSE IF general # {} THEN config_sources[CHOOSE i \in general : TRUE].urls
        ELSE <<>>

\* tools.py lines 53-62
ResolveFeedUrls(topic, sources, config) ==
    IF sources # <<>> THEN sources
    ELSE IF topic # <<>> THEN get_sources_for_topic(topic, config.sources)
    ELSE ConcatUrls([i \in 1..Len(config.interests) |->
             get_sources_for_topic(config.interests[i], config.sources)])

(***************************************************************************)
(* tools.py: search_feeds                                                  *)
(***************************************************************************)
NoDate == [t |-> "None"]

\* date_parser.parse(raw).isoformat(), None when the field is absent or
\* does not parse
ParseDate(raw) ==
    IF raw.t = "date" THEN [t |-> "iso", local |-> raw.local, off |-> raw.off] ELSE NoDate

\* lines 112-136: the article built from one feed entry
BuildArticle(entry, feed_url, nowv) ==
    LET first == ParseDate(entry.published)
        published == IF first # NoDate THEN first ELSE ParseDate(entry.updated)
    IN  [title |-> clean_text(entry.title),
         url |-> normalize_url(entry.link),
         summary |-> clean_text(entry.summary),
         published |-> published,
         source_url |-> feed_url,
         domain |-> extract_domain(entry.link),
         fetched_at |-> isoformat(nowv)]

ErrorFetchingFeed(feed_url) == [msg |-> "Error fetching feed", feed |-> feed_url]
ErrorParseFeed(feed_url) == [msg |-> "Failed to parse feed", feed |-> feed_url]
ErrorEntry(feed_url) == [msg |-> "Error processing entry", feed |-> feed_url]

\* lines 109-144: the loop over the entries of one feed
RECURSIVE EntriesLoop(_, _, _, _, _)
EntriesLoop(entries, feed_url, exclude_domains, nowv, acc) ==
    IF entries = <<>> THEN acc
    ELSE LET entry == Head(entries)
             next ==
                IF entry.bad
                THEN [acc EXCEPT !.errors = Append(@, ErrorEntry(feed_url))]
                ELSE LET article == BuildArticle(entry, feed_url, nowv)
                     IN  IF article.domain \notin exclude_domains
                         THEN [acc EXCEPT !.feed_articles = Append(@, article)]
                         ELSE acc
         IN  EntriesLoop(Tail(entries), feed_url, exclude_domains, nowv, next)

\* lines 80-92: the cache check of one feed
FeedCacheCheck(file, nowv, max_per_feed) ==
    IF file.kind = "absent" THEN [out |-> "miss"]
    ELSE LET lt == LoadTimestamp(file)
         IN  IF lt.exc = "none"
             THEN IF IsFresh(nowv, lt.cache_time)
                  THEN IF "articles" \in DOMAIN file.val.d
                       THEN [out |-> "hit",
                             articles |-> Take(file.val.d.articles, max_per_feed)]
                       ELSE IF "KeyError" \in ExceptCaught
                            THEN [out |-> "miss"]
                            ELSE [out |-> "raise", exc |-> "KeyError"]
                  ELSE [out |-> "miss"]
             ELSE IF lt.exc \in ExceptCaught
                  THEN [out |-> "miss"]
                  ELSE [out |-> "raise", exc |-> lt.exc]

\* every parsed document is taken to have entries
ParseFailedNever(feed) == FALSE

\* line 104: if feed.bozo and not feed.entries
ParseFailed(feed) == feed.bozo /\ feed.entries = <<>>

\* the file is written without the articles
CacheDataEmpty(nowv, feed_articles) ==
    JsonFile(JsonDict([timestamp |-> isoformat(nowv), articles |-> <<>>]))

\* lines 149-154: cache_data as json.dump writes it
CacheData(nowv, feed_articles) ==
    JsonFile(JsonDict([timestamp |-> isoformat(nowv), articles |-> feed_articles]))

\* a request that failed is made a second time
GetAttemptsRetried(outcome) == IF outcome.kind = "neterror" THEN 2 ELSE 1

\* lines 94-99: requests.get is called once, outside any loop, and an
\* exception leaves the iteration through the handler at line 156
GetAttempts(outcome) == 1

\* the hit renews the timestamp of the file
HitLeavesRenewed(file, nowv) ==
    JsonFile(JsonDict([file.val.d EXCEPT !.timestamp = isoformat(nowv)]))

\* lines 87-89: the cached articles are collected and the loop continues;
\* the file is not written
HitLeaves(file, nowv) == file

\* lines 75-158: one iteration of the loop over feed_urls[:5]
ProcessFeed(acc, feed_url, config, nowv, outcome) ==
    LET chk == FeedCacheCheck(acc.cache[feed_url], nowv, config.max_articles_per_feed)
    IN  IF chk.out = "hit"
        THEN [acc EXCEPT !.articles = @ \o chk.articles,
                         !.cache = [@ EXCEPT ![feed_url] = HitLeaves(@, nowv)],
                         !.log = Append(@, [feed |-> feed_url, how |-> "hit", net |-> 0])]
        ELSE IF chk.out = "raise"
        THEN [acc EXCEPT !.errors = Append(@, ErrorFetchingFeed(feed_url)),
                         !.log = Append(@, [feed |-> feed_url, how |-> "cache_error", net |-> 0])]
        ELSE IF outcome.kind = "neterror"
        THEN [acc EXCEPT !.errors = Append(@, ErrorFetchingFeed(feed_url)),
                         !.log = Append(@, [feed |-> feed_url, how |-> "fetch_failed",
                                         net |-> GetAttempts(outcome)])]
        ELSE IF ParseFailed(outcome)
        THEN [acc EXCEPT !.errors = Append(@, ErrorParseFeed(feed_url)),
                         !.log = Append(@, [feed |-> feed_url, how |-> "parse_failed",
                                         net |-> GetAttempts(outcome)])]
        ELSE LET built == EntriesLoop(Take(outcome.entries, config.max_articles_per_feed),
                                      feed_url, config.exclude_domains, nowv,
                                      [feed_articles |-> <<>>, errors |-> <<>>])
             IN  [articles |-> acc.articles \o built.feed_articles,
                  errors |-> acc.errors \o built.errors,
                  cache |-> [acc.cache EXCEPT ![feed_url] =
                                CacheData(nowv, built.feed_articles)],
                  log |-> Append(acc.log, [feed |-> feed_url, how |-> "fetched",
                                           net |-> GetAttempts(outcome)])]

RECURSIVE FeedLoop(_, _, _, _, _)
FeedLoop(acc, feed_urls, config, nowv, outcomes) ==
    IF feed_urls = <<>> THEN acc
    ELSE FeedLoop(ProcessFeed(acc, Head(feed_urls), config, nowv, outcomes[Head(feed_urls)]),
                  Tail(feed_urls), config, nowv, outcomes)

\* order of two isoformat() strings: the local date and time first, then the
\* UTC offset text, where no offset is a proper prefix and "+" < "-"
OffRank(off) == CASE off = "naive" -> 0 [] off = "+00:00" -> 1 [] OTHER -> 2

IsoLess(p, q) ==
    \/ p.local < q.local
    \/ p.local = q.local /\ OffRank(p.off) < OffRank(q.off)

\* list.sort(key=..., reverse=True) is stable: x goes before the first
\* element whose key is smaller
RECURSIVE InsertDesc(_, _)
InsertDesc(sorted, x) ==
    IF sorted = <<>> THEN <<x>>
    ELSE IF IsoLess(Head(sorted).published, x.published)
         THEN <<x>> \o sorted
         ELSE <<Head(sorted)>> \o InsertDesc(Tail(sorted), x)

RECURSIVE SortDesc(_, _)
SortDesc(sorted, rest) ==
    IF rest = <<>> THEN sorted ELSE SortDesc(InsertDesc(sorted, Head(rest)), Tail(rest))

\* line 164: articles.sort(key=lambda x: x.get('published', ''), reverse=True);
\* the key of an undated article is None, and comparing None raises
SortByPublished(articles) ==
    IF Len(articles) >= 2 /\ \E i \in 1..Len(articles) : articles[i].published = NoDate
    THEN [exc |-> "TypeError"]
    ELSE [exc |-> "none", articles |-> SortDesc(<<>>, articles)]

\* the loop runs over all the resolved feeds
FirstFeedsAll(feed_urls) == feed_urls

\* line 74: feed_urls[:5]
FirstFeeds(feed_urls) == Take(feed_urls, 5)

\* the whole of search_feeds: the result, the cache afterwards, the errors
\* and the articles collected by the loop and what was done for each feed
search_feeds(topic, sources, limit, config, cache, nowv, outcomes) ==
    LET feed_urls == ResolveFeedUrls(topic, sources, config)
    IN  IF feed_urls = <<>>
        THEN [result |-> Return([success |-> FALSE,
                                 error |-> "No sources found for the given topic or criteria",
                                 articles |-> <<>>]),
              cache |-> cache, errors |-> <<>>, log |-> <<>>, collected |-> <<>>,
              feed_urls |-> feed_urls]
        ELSE LET acc == FeedLoop([articles |-> <<>>, errors |-> <<>>, cache |-> cache, log |-> <<>>],
                                 FirstFeeds(feed_urls), config, nowv, outcomes)
                 sorted == SortByPublished(deduplicate_articles(acc.articles))
             IN  [result |-> IF sorted.exc # "none" THEN Raise(sorted.exc)
                             ELSE Return([success |-> TRUE,
                                          articles |-> Take(sorted.articles, limit),
                                          total_found |-> Len(Take(sorted.articles, limit)),
                                          sources_used |-> feed_urls,
                                          errors |-> acc.errors,
                                          topic |-> topic,
                                          timestamp |-> isoformat(nowv)]),
                  cache |-> acc.cache, errors |-> acc.errors, log |-> acc.log,
                  collected |-> acc.articles, feed_urls |-> feed_urls]

(***************************************************************************)
(* llm_client.py: the external ranker and the parsing of its response      *)
(***************************************************************************)
Digits == <<"0","1","2","3","4","5","6","7","8","9">>
DigitSet == {Digits[i] : i \in 1..Len(Digits)}
Letters == {UpperAlphabet[i] : i \in 1..Len(UpperAlphabet)}
           \cup {LowerAlphabet[i] : i \in 1..Len(LowerAlphabet)}

\* the characters matched by \w
WordChars == Letters \cup DigitSet \cup {"_"}

\* the characters of the class [\d,\s]
ArrayChars == DigitSet \cup {","} \cup Whitespace

DigitValue(ch) == (CHOOSE i \in 1..Len(Digits) : Digits[i] = ch) - 1

\* int(n) for a string of digits
RECURSIVE ParseInt(_)
ParseInt(s) ==
    IF s = <<>> THEN 0
    ELSE 10 * ParseInt(SubSeq(s, 1, Len(s) - 1)) + DigitValue(s[Len(s)])

\* the last position of the longest run of characters of class that starts
\* at position i (i - 1 when s[i] is not in class)
RunEnd(s, i, class) ==
    CHOOSE j \in (i - 1)..Len(s) :
        /\ \A k \in i..j : s[k] \in class
        /\ j = Len(s) \/ s[j + 1] \notin class

\* re.search(r'\[[\d,\s]+\]', s) matches at position i
ArrayMatchAt(s, i) ==
    /\ s[i] = "["
    /\ LET j == RunEnd(s, i + 1, ArrayChars)
       IN  j >= i + 1 /\ j < Len(s) /\ s[j + 1] = "]"

\* s.split(',')
RECURSIVE SplitComma(_)
SplitComma(s) ==
    IF \A i \in 1..Len(s) : s[i] # "," THEN <<s>>
    ELSE LET c == CHOOSE i \in 1..Len(s) :
                      s[i] = "," /\ \A k \in 1..(i - 1) : s[k] # ","
         IN  <<SubSeq(s, 1, c - 1)>> \o SplitComma(SubSeq(s, c + 1, Len(s)))

\* a JSON number made of digits: no leading zero
IsJsonInt(s) ==
    /\ s # <<>>
    /\ \A i \in 1..Len(s) : s[i] \in DigitSet
    /\ Len(s) = 1 \/ s[1] # "0"

NoneValue == [t |-> "None"]
ListValue(v) == [t |-> "list", v |-> v]

\* json.loads of "[" inner "]" where inner is made of digits, commas and
\* whitespace: the list of integers, or None for JSONDecodeError
LoadIntArray(inner) ==
    IF Strip(inner) = <<>> THEN ListValue(<<>>)
    ELSE LET parts == SplitComma(inner)
         IN  IF \A k \in 1..Len(parts) : IsJsonInt(Strip(parts[k]))
             THEN ListValue([k \in 1..Len(parts) |-> ParseInt(Strip(parts[k]))])
             ELSE NoneValue

\* re.findall(r'\b\d+\b', s): the runs of digits that no word character
\* touches, as integers
FindNumbers(s) ==
    LET IsStart(i) ==
            /\ s[i] \in DigitSet
            /\ i = 1 \/ s[i - 1] \notin WordChars
            /\ LET j == RunEnd(s, i, DigitSet)
               IN  j = Len(s) \/ s[j + 1] \notin WordChars
        starts == SelectSeq(Indices(s), IsStart)
    IN  [k \in 1..Len(starts) |->
            ParseInt(SubSeq(s, starts[k], RunEnd(s, starts[k], DigitSet)))]

\* valid_indices[:5] and numbers[:5]
FirstFive(indices) == Take(indices, 5)

\* LLMClient._parse_ranking_response
parse_ranking_response(response) ==
    LET matches == {i \in 1..Len(response) : ArrayMatchAt(response, i)}
    IN  IF matches # {}
        THEN LET i == CHOOSE m \in matches : \A n \in matches : m <= n
                 loaded == LoadIntArray(SubSeq(response, i + 1,
                                               RunEnd(response, i + 1, ArrayChars)))
             IN  IF loaded = NoneValue THEN NoneValue
                 ELSE ListValue(FirstFive(loaded.v))
        ELSE LET numbers == FindNumbers(response)
             IN  IF numbers # <<>> THEN ListValue(FirstFive(numbers)) ELSE NoneValue

\* if i < len(articles)
InRange(i, articles) == i < Len(articles)

\* LLMClient.rank_articles once is_available() holds; llm is what _call_llm
\* returned: None (a failed call) or the text of the response
llm_rank_articles(articles, llm) ==
    IF llm.t = "None" \/ llm.text = <<>> THEN NoneValue
    ELSE LET ranked_indices == parse_ranking_response(llm.text)
         IN  IF ranked_indices = NoneValue \/ ranked_indices.v = <<>> THEN NoneValue
             ELSE LET kept == SelectSeq(ranked_indices.v,
                                        LAMBDA i : InRange(i, articles))
                  IN  ListValue([k \in 1..Len(kept) |-> articles[kept[k] + 1]])

(***************************************************************************)
(* tools.py: rank_articles                                                 *)
(*                                                                         *)
(* Scores are in hundredths, so that 10 * 0.9 ** days_old is an integer    *)
(* for the ages of the model; for these ages the float sums of the code    *)
(* are equal exactly when the integer sums are.                            *)
(***************************************************************************)
ScoreScale == 100

Max(a, b) == IF a >= b THEN a ELSE b

RECURSIVE Power(_, _)
Power(b, n) == IF n = 0 THEN 1 ELSE b * Power(b, n - 1)

\* max(0, 10 * (0.9 ** days_old)); days_old is negative for a date in the
\* future, and 0.9 ** -n is (10 / 9) ** n
RecencyScore(days_old) ==
    IF days_old >= 0
    THEN Max(0, (10 * ScoreScale * Power(9, days_old)) \div Power(10, days_old))
    ELSE Max(0, (10 * ScoreScale * Power(10, 0 - days_old)) \div Power(9, 0 - days_old))

\* lines 368-377: the publish date is parsed and subtracted from
\* datetime.now(); subtracting a date with a UTC offset raises, and the
\* bare except skips the term
Recency(item, today) ==
    IF item.published = NoDate THEN 0
    ELSE IF item.published.t # "iso" THEN 0
    ELSE IF item.published.off # "naive" THEN 0
    ELSE RecencyScore(today - item.published.local)

RECURSIVE SumSeq(_)
SumSeq(s) == IF s = <<>> THEN 0 ELSE Head(s) + SumSeq(Tail(s))

\* lines 394-407: the loop over a keyword list
KeywordTerm(keywords, title, summary, in_title, in_summary) ==
    SumSeq([k \in 1..Len(keywords) |->
              (IF IsSubstring(Lower(keywords[k]), title) THEN in_title ELSE 0)
              + (IF IsSubstring(Lower(keywords[k]), summary) THEN in_summary ELSE 0)])

\* the penalty is applied once, whatever the number of filter keywords found
FilterTermOnce(keywords_filter, title, summary) ==
    (IF \E k \in 1..Len(keywords_filter) : IsSubstring(Lower(keywords_filter[k]), title)
     THEN 0 - 20 * ScoreScale ELSE 0)
    + (IF \E k \in 1..Len(keywords_filter) : IsSubstring(Lower(keywords_filter[k]), summary)
       THEN 0 - 10 * ScoreScale ELSE 0)

\* lines 402-407: score -= 20.0 / score -= 10.0 for every filter keyword
FilterTerm(keywords_filter, title, summary) ==
    KeywordTerm(keywords_filter, title, summary, 0 - 20 * ScoreScale, 0 - 10 * ScoreScale)

\* lines 409-414
LengthBonus(item) ==
    LET word_count == IF "word_count" \in DOMAIN item THEN item.word_count
                      ELSE WordCount(item.summary)
    IN  IF word_count > 200 THEN 3 * ScoreScale
        ELSE IF word_count > 100 THEN ScoreScale
        ELSE 0

\* lines 365-414: the heuristic score of one item
ScoreItem(item, topic, config, today) ==
    LET title == Lower(item.title)
        summary == Lower(item.summary)
        topic_lower == Lower(topic)
    IN  Recency(item, today)
        + 2 * ScoreScale
        + (IF IsSubstring(topic_lower, title) THEN 15 * ScoreScale ELSE 0)
        + (IF IsSubstring(topic_lower, summary) THEN 10 * ScoreScale ELSE 0)
        + KeywordTerm(config.keywords_boost, title, summary, 8 * ScoreScale, 5 * ScoreScale)
        + FilterTerm(config.keywords_filter, title, summary)
        + LengthBonus(item)

\* scored_items.sort(key=lambda x: x[1], reverse=True) is stable: x goes
\* before the first pair whose score is smaller
RECURSIVE InsertByScore(_, _)
InsertByScore(sorted, x) ==
    IF sorted = <<>> THEN <<x>>
    ELSE IF Head(sorted).score < x.score
         THEN <<x>> \o sorted
         ELSE <<Head(sorted)>> \o InsertByScore(Tail(sorted), x)

RECURSIVE SortByScore(_, _)
SortByScore(sorted, rest) ==
    IF rest = <<>> THEN sorted
    ELSE SortByScore(InsertByScore(sorted, Head(rest)), Tail(rest))

\* credentials["llm"] that is not a dictionary: Config.get_llm_config, called
\* by the constructor of LLMClient, raises on it
MalformedLlm == [t |-> "malformed"]

\* LLMClient.is_available
is_available(llm_config) == llm_config.api_key # "" /\ llm_config.provider # ""

\* the whole of rank_articles: the list returned, the score of every item
\* and the candidates handed to the ranker
rank_articles(items, topic, config, today, llm) ==
    IF items = <<>>
    THEN [result |-> <<>>, scores |-> <<>>, top_candidates |-> <<>>, calls |-> 0]
    ELSE LET scored_items == [i \in 1..Len(items) |->
                                 [item |-> items[i],
                                  score |-> ScoreItem(items[i], topic, config, today)]]
             sorted == SortByScore(<<>>, scored_items)
             top_candidates == [i \in 1..Len(Take(sorted, 15)) |-> sorted[i].item]
             \* lines 425-434: the constructor raising is caught and printed
             asked == config.llm # MalformedLlm /\ is_available(config.llm)
             reranked == IF asked
                         THEN llm_rank_articles(top_candidates, llm)
                         ELSE NoneValue
         IN  [result |-> IF reranked # NoneValue /\ reranked.v # <<>>
                         THEN Take(reranked.v, 5)
                         ELSE Take(top_candidates, 5),
              scores |-> [i \in 1..Len(items) |-> scored_items[i].score],
              top_candidates |-> top_candidates,
              \* llm_client.py line 42: the one call of _call_llm
              calls |-> IF asked THEN 1 ELSE 0]

(***************************************************************************)
(* Inputs of the model                                                     *)
(***************************************************************************)
MaxTicks == 2
MaxLen == 3
MaxPerFeed == 2

\* the clock advances by one second or by one second less than the TTL
TickSteps == {1, cache_ttl - 1}

\* feedC .. feedF are unreachable hosts
DownFeeds == {"feedC", "feedD", "feedE", "feedF"}
FeedUrls == {"feedA", "feedB"} \cup DownFeeds

RawDate(local, off) == [t |-> "date", local |-> local, off |-> off]
RawAbsent == [t |-> "absent"]
RawGarbage == [t |-> "garbage"]

EntryNews ==
    [title |-> TitleShort, link |-> UrlA, summary |-> <<>>,
     published |-> RawDate(2, "naive"), updated |-> RawAbsent, bad |-> FALSE]
EntryUndated ==
    [title |-> TitleYo, link |-> UrlB, summary |-> <<>>,
     published |-> RawAbsent, updated |-> RawGarbage, bad |-> FALSE]
EntryUpdated ==
    [title |-> TitleOk, link |-> UrlB, summary |-> <<>>,
     published |-> RawGarbage, updated |-> RawDate(1, "+00:00"), bad |-> FALSE]
EntryWww ==
    [title |-> TitleUp, link |-> UrlWwwA, summary |-> <<>>,
     published |-> RawDate(3, "naive"), updated |-> RawAbsent, bad |-> FALSE]
EntryDup ==
    [title |-> TitleYo, link |-> UrlASlash, summary |-> <<>>,
     published |-> RawDate(2, "-05:00"), updated |-> RawAbsent, bad |-> FALSE]
EntryBad ==
    [title |-> TitleEmpty, link |-> UrlEmpty, summary |-> <<>>,
     published |-> RawAbsent, updated |-> RawAbsent, bad |-> TRUE]

NotAsked == [kind |-> "notasked"]
NetError == [kind |-> "neterror"]
\* feedparser.parse: the entries and the bozo flag of a malformed document;
\* Bozo is a document from which nothing could be read
Bozo == [kind |-> "bozo", bozo |-> TRUE, entries |-> <<>>]
Parsed(entries) == [kind |-> "ok", bozo |-> FALSE, entries |-> entries]
ParsedBozo(entries) == [kind |-> "ok", bozo |-> TRUE, entries |-> entries]

\* what the network and the feed parser may answer for each feed
FeedOutcomes(feed_url) ==
    IF feed_url = "feedA"
    THEN {NetError, Bozo, Parsed(<<EntryNews, EntryUndated>>),
          Parsed(<<EntryWww, EntryBad, EntryNews>>), ParsedBozo(<<EntryBad, EntryNews>>)}
    ELSE IF feed_url = "feedB"
    THEN {NetError, Parsed(<<EntryDup, EntryUpdated>>), Parsed(<<>>)}
    ELSE {NetError}

DomainA == <<"a",".","c","o">>
ExcludeLists == {{}, {DomainA}}

TopicTech == <<"T","e","c","h">>
ConfigSources ==
    << [category |-> <<"t","e","c","h","n","o","l","o","g","y">>, urls |-> <<"feedA">>],
       [category |-> <<"g","e","n","e","r","a","l">>, urls |-> <<"feedB">>],
       [category |-> <<"w","o","r","l","d">>,
        urls |-> <<"feedA", "feedC", "feedD", "feedE", "feedF", "feedB">>] >>

ConfigWith(exclude_domains) ==
    [max_articles_per_feed |-> MaxPerFeed,
     exclude_domains |-> exclude_domains,
     interests |-> <<>>,
     sources |-> ConfigSources]

\* (topic, sources) arguments of search_feeds
FeedRequests ==
    {[topic |-> <<>>, sources |-> <<>>],
     [topic |-> TopicTech, sources |-> <<>>],
     [topic |-> <<>>, sources |-> <<"feedA", "feedB">>],
     [topic |-> <<>>, sources |-> <<"feedB", "feedA">>],
     [topic |-> <<"w","o","r","l","d">>, sources |-> <<>>],
     [topic |-> <<>>,
      sources |-> <<"feedC", "feedD", "feedB", "feedE", "feedF", "feedA">>]}

Limits == {1, 3}

\* files written by hand into the cache directory
FeedTamperFiles ==
    {Garbage,
     JsonFile(JsonList),
     JsonFile(JsonDict([articles |-> <<>>])),
     JsonFile(JsonDict([timestamp |-> NotIsoString, articles |-> <<>>]))}

ArticleUrls == {UrlEmpty, UrlA, UrlASlash}
ArticleKeys == {ArticleCacheKey(u) : u \in ArticleUrls}

NotRun == [kind |-> "notrun"]
PrimaryLong == TextOf(201, "p")
PrimaryEdge == TextOf(200, "p")
FallbackLong == TextOf(201, "f")
FallbackShort == <<"f"," "," ","f">>

PrimaryOutcomes ==
    {[kind |-> "none"],
     [kind |-> "unparsable"],
     [kind |-> "json", d |-> [title |-> TitleShort]],
     [kind |-> "json", d |-> [title |-> TitleShort, text |-> <<>>]],
     [kind |-> "json", d |-> [title |-> TitleShort, text |-> PrimaryEdge]],
     [kind |-> "json", d |-> [title |-> TitleShort, text |-> PrimaryLong]]}

FallbackOutcomes ==
    {[kind |-> "raise", exc |-> "Unparseable"],
     [kind |-> "ok", title |-> TitleYo, text_content |-> <<>>],
     [kind |-> "ok", title |-> TitleYo, text_content |-> FallbackShort],
     [kind |-> "ok", title |-> TitleYo, text_content |-> FallbackLong]}

\* what requests.get and raise_for_status may raise
HttpErrors == {"Timeout", "ConnectionError", "HTTPError"}

\* requests.get raises for the empty URL
HttpOutcomes(rawurl) == IF rawurl = <<>> THEN {"MissingSchema"} ELSE HttpErrors \cup {"ok"}

ArticleTamperFiles(nowv) ==
    {Garbage,
     JsonFile(JsonList),
     JsonFile(JsonDict([success |-> TRUE])),
     JsonFile(JsonDict([timestamp |-> JsonNumber, success |-> TRUE])),
     JsonFile(JsonDict([timestamp |-> NotIsoString, success |-> TRUE])),
     JsonFile(JsonDict([timestamp |-> isoformat(nowv), success |-> TRUE]))}

Art(title, url) == [title |-> title, url |-> url]

DedupPool ==
    {Art(TitleExtra, UrlA), Art(TitleOther, UrlB), Art(TitleOther, UrlASlash),
     Art(TitleShort, UrlEmpty), Art(TitleSpaced, UrlB), Art(TitleEmpty, UrlEmpty),
     Art(TitleDigest, UrlWwwA), Art(TitleExtra, UrlEmpty)}

DedupInputs == UNION {[1..n -> DedupPool] : n \in 0..MaxLen}

\* URL strings given to normalize_url: nothing, a scheme or a broken scheme,
\* followed by up to MaxUrlChars characters
MaxUrlChars == 3
UrlChars == {"a", ".", "/"}
UrlPrefixes == {<<>>, Http, Https, <<"h","t","t","p","s",":">>}
UrlInputs ==
    {p \o b : p \in UrlPrefixes, b \in UNION {[1..n -> UrlChars] : n \in 0..MaxUrlChars}}

\* Items given to rank_articles.  local is the day of publication and
\* RankToday the day of datetime.now(); the ages are 0 and 2 days, and -1
\* day for the article of tomorrow.
RankToday == 3
MaxItems == 2

RankItem(title, summary, published) ==
    [title |-> title, summary |-> summary, published |-> published]

ItemFresh == RankItem(<<"A","I"," ","n","o","w">>, <<>>,
                      [t |-> "iso", local |-> 3, off |-> "naive"])
ItemOld == RankItem(<<"O","l","d">>, <<>>,
                    [t |-> "iso", local |-> 1, off |-> "naive"])
ItemBad == RankItem(<<"B","a","d"," ","A","I">>, <<"b","a","d">>,
                    [t |-> "iso", local |-> 3, off |-> "naive"])
ItemUndated == RankItem(<<"O","l","d">>, <<"a","i">>, NoDate)
ItemPlain == RankItem(<<"X">>, <<>>, [t |-> "iso", local |-> 3, off |-> "naive"])
ItemAware == [title |-> <<"T","i","e">>, summary |-> <<>>,
              published |-> [t |-> "iso", local |-> 3, off |-> "+00:00"],
              word_count |-> 201]

\* published tomorrow, and with a published text that is no date
ItemFuture == RankItem(<<"S","o","o","n">>, <<>>,
                       [t |-> "iso", local |-> 4, off |-> "naive"])
ItemGarbled == RankItem(<<"W","h","e","n">>, <<>>, [t |-> "garbage"])
OddItems == <<ItemGarbled, ItemAware, ItemFuture, ItemOld>>

RankPool == {ItemFresh, ItemOld, ItemBad, ItemUndated, ItemPlain, ItemAware}

SixItems == <<ItemOld, ItemAware, ItemUndated, ItemBad, ItemPlain, ItemFresh>>
SixteenItems == SixItems \o SixItems \o <<ItemAware, ItemOld, ItemPlain, ItemUndated>>

RankInputs ==
    UNION {[1..n -> RankPool] : n \in 0..MaxItems} \cup {SixItems, SixteenItems, OddItems}

RankTopics == {<<"A","I">>}

LlmConfigs ==
    {[api_key |-> "", provider |-> "openai"],
     [api_key |-> "sk", provider |-> ""],
     [api_key |-> "sk", provider |-> "openai"],
     MalformedLlm}

RankConfigs ==
    {[keywords_boost |-> b, keywords_filter |-> f, llm |-> l] :
        b \in {<<>>, <<<<"N","o","w">>>>},
        f \in {<<>>, <<<<"b","a","d">>>>, <<<<"B","a","d">>, <<"a","i">>>>},
        l \in LlmConfigs}

TextResponse(text) == [t |-> "text", text |-> text]

\* what _call_llm returns: None, or the text of the response
LlmResponses ==
    {NoneValue} \cup
    {TextResponse(r) : r \in
        {<<>>,
         <<"[","1",",","0","]">>,
         <<"[","2",","," ","9",","," ","0","]">>,
         <<"[","9","]">>,
         <<"[","1",",",",","0","]">>,
         <<"["," ","]">>,
         <<"1"," ","t","h","e","n"," ","0">>,
         <<"n","o">>,
         <<"[","9",",","9",",","9",",","9",",","9",",","0","]">>,
         <<"[","0",",","0","]">>,
         <<"[","1","5",",","0","]">>,
         <<"[","5",",","4",",","3",",","2",",","1",",","0","]">>}}

RankScenarios ==
    {[items |-> i, topic |-> t, config |-> c, llm |-> l] :
        i \in RankInputs, t \in RankTopics, c \in RankConfigs,
        l \in LlmResponses \cup {NotAsked}}

\* sources.json files and interests for the resolution of the sources
CatTech == <<"t","e","c","h">>
CatTechnology == <<"t","e","c","h","n","o","l","o","g","y">>
CatGeneral == <<"g","e","n","e","r","a","l">>
CatWorld == <<"w","o","r","l","d">>

ResolveSourcesFiles ==
    { << [category |-> CatTech, urls |-> <<"feedA">>],
         [category |-> CatTechnology, urls |-> <<"feedB", "feedA">>],
         [category |-> CatGeneral, urls |-> <<"feedC">>] >>,
      << [category |-> TopicTech, urls |-> <<"feedA">>],
         [category |-> CatTechnology, urls |-> <<"feedB">>],
         [category |-> CatGeneral, urls |-> <<"feedC">>] >>,
      << [category |-> CatTechnology, urls |-> <<>>],
         [category |-> CatGeneral, urls |-> <<"feedC">>] >>,
      << [category |-> CatTech, urls |-> <<>>],
         [category |-> CatGeneral, urls |-> <<"feedC">>] >>,
      << [category |-> CatWorld, urls |-> <<"feedD">>] >> }

ResolveConfigs ==
    {[max_articles_per_feed |-> MaxPerFeed, exclude_domains |-> {},
      interests |-> i, sources |-> s] :
        i \in {<<>>, <<CatTech, <<"s","p","o","r","t">>>>, <<CatWorld>>},
        s \in ResolveSourcesFiles}

ResolveTopics ==
    {<<>>, CatTech, TopicTech, <<"T","E","C","H">>, <<"t","e","c","h","n","o">>,
     <<"w","o","r","l","d"," ","t","e","c","h">>, <<"s","p","o","r","t">>}

ResolveInputs ==
    {[topic |-> t, sources |-> s, config |-> c] :
        t \in ResolveTopics, s \in {<<>>, <<"feedB", "feedA">>}, c \in ResolveConfigs}

(***************************************************************************)
(* One feed cache file under concurrent invocations                        *)
(*                                                                         *)
(* disk is the file feed_<md5>.json as the blocks that the write calls of  *)
(* json.dump transfer: the opening of the object with the timestamp, one   *)
(* block for each article, the closing of the list and of the object.      *)
(* open(cache_path, 'w') truncates the file, each writer then writes its   *)
(* blocks at its own file offset. inv[p] is the invocation of process p,   *)
(* written the payloads for which a writer has opened the file.            *)
(***************************************************************************)
NumProcs == 2
MaxRuns == 2
Procs == 1..NumProcs

HeadBlock(ts) == [b |-> "head", timestamp |-> ts]
ItemBlock(a) == [b |-> "item", article |-> a]
TailBlock == [b |-> "tail"]
\* the bytes between the end of the file and a write beyond it
Hole == [b |-> "hole"]

NoFile == [exists |-> FALSE, blocks |-> <<>>]

\* json.dump(cache_data, f, indent=2)
Serialize(cache_data) ==
    <<HeadBlock(cache_data.timestamp)>>
    \o [i \in 1..Len(cache_data.articles) |-> ItemBlock(cache_data.articles[i])]
    \o <<TailBlock>>

\* json.load(f): the text is JSON iff it is an opening, articles and a closing
JsonLoad(blocks) ==
    IF /\ Len(blocks) >= 2
       /\ blocks[1].b = "head"
       /\ blocks[Len(blocks)].b = "tail"
       /\ \A i \in 2..(Len(blocks) - 1) : blocks[i].b = "item"
    THEN JsonFile(JsonDict([timestamp |-> blocks[1].timestamp,
                            articles |-> [i \in 1..(Len(blocks) - 2) |->
                                             blocks[i + 1].article]]))
    ELSE Garbage

\* cache_path.exists() and json.load
ReadFile(file) == IF file.exists THEN JsonLoad(file.blocks) ELSE Absent

\* f.write of one block at file offset pos
WriteAt(blocks, pos, block) ==
    [i \in 1..(IF Len(blocks) > pos THEN Len(blocks) ELSE pos + 1) |->
        IF i = pos + 1 THEN block
        ELSE IF i <= Len(blocks) THEN blocks[i]
        ELSE Hole]

NotStarted == [pc |-> "idle", runs |-> 0, read |-> [out |-> "none"],
               todo |-> <<>>, pos |-> 0, ended |-> "none"]

NoRace ==
    /\ disk = NoFile
    /\ inv = [p \in Procs |-> NotStarted]
    /\ written = {}

(***************************************************************************)
(* State machine                                                           *)
(*                                                                         *)
(* last is the invocation in progress: a tool handler of main.py runs one  *)
(* operation to its end and hands the result to the caller; the next       *)
(* request starts when the result has been delivered.                      *)
(***************************************************************************)
Idle == [op |-> "idle"]

Init ==
    /\ now = 0
    /\ ticks = 0
    /\ feedCache = [f \in FeedUrls |-> Absent]
    /\ articleCache = [k \in ArticleKeys |-> Absent]
    /\ NoRace
    /\ last = Idle

Tick ==
    /\ last = Idle
    /\ \E d \in TickSteps :
        /\ ticks < MaxTicks
        /\ now' = now + d
        /\ ticks' = ticks + 1
        /\ UNCHANGED <<feedCache, articleCache, last, disk, inv, written>>

\* a cache file is replaced by hand
TamperFeed ==
    /\ last = Idle
    /\ \E content \in FeedTamperFiles :
        /\ feedCache' = [feedCache EXCEPT !["feedA"] = content]
        /\ UNCHANGED <<now, ticks, articleCache, last, disk, inv, written>>

TamperArticle ==
    /\ last = Idle
    /\ \E k \in ArticleKeys \ {<<>>}, content \in ArticleTamperFiles(now) :
        /\ articleCache' = [articleCache EXCEPT ![k] = content]
        /\ UNCHANGED <<now, ticks, feedCache, last, disk, inv, written>>

\* the collaborators answer only when they are called
ArticleScenarios(rawurl, file, nowv) ==
    IF ArticleCacheCheck(file, nowv).out # "miss"
    THEN {[http |-> "notcalled", primary |-> NotRun, fallback |-> NotRun]}
    ELSE {[http |-> h, primary |-> NotRun, fallback |-> NotRun] :
             h \in HttpOutcomes(rawurl) \ {"ok"}}
         \cup {[http |-> "ok", primary |-> p, fallback |-> f] :
                 p \in PrimaryOutcomes, f \in FallbackOutcomes \cup {NotRun}}

FetchArticle ==
    /\ last = Idle
    /\ \E rawurl \in ArticleUrls :
        LET key == ArticleCacheKey(rawurl)
            file == articleCache[key]
        IN  \E sc \in ArticleScenarios(rawurl, file, now) :
                /\ sc.http \in HttpOutcomes(rawurl) \cup {"notcalled"}
                /\ sc.http = "ok" =>
                      (sc.fallback = NotRun <=> PrimaryArticle(sc.primary, key) # NoArticle)
                /\ \E r \in {fetch_article(rawurl, file, now, sc.http, sc.primary, sc.fallback)} :
                    /\ articleCache' = [articleCache EXCEPT ![key] = r.file]
                    /\ last' = [op |-> "fetch_article", rawurl |-> rawurl, http |-> sc.http,
                                primary |-> sc.primary, fallback |-> sc.fallback,
                                before |-> file, at |-> now,
                                result |-> r.result, net |-> r.net, ran |-> r.ran]
                    /\ UNCHANGED <<now, ticks, feedCache, disk, inv, written>>

\* a feed that is not fetched has no network outcome
AskedOutcomes(f, feed_urls, config, cache, nowv) ==
    IF /\ \E i \in 1..Len(FirstFeeds(feed_urls)) : feed_urls[i] = f
       /\ FeedCacheCheck(cache[f], nowv, config.max_articles_per_feed).out = "miss"
    THEN FeedOutcomes(f)
    ELSE {NotAsked}

FeedScenarios(feed_urls, config, cache, nowv) ==
    {[f \in FeedUrls |->
         IF f = "feedA" THEN a
         ELSE IF f = "feedB" THEN b
         ELSE CHOOSE o \in AskedOutcomes(f, feed_urls, config, cache, nowv) : TRUE] :
        a \in AskedOutcomes("feedA", feed_urls, config, cache, nowv),
        b \in AskedOutcomes("feedB", feed_urls, config, cache, nowv)}

SearchFeedsOf(requests) ==
    /\ last = Idle
    /\ \E req \in requests, limit \in Limits, exclude \in ExcludeLists :
        LET config == ConfigWith(exclude)
            feed_urls == ResolveFeedUrls(req.topic, req.sources, config)
        IN  \E outcomes \in FeedScenarios(feed_urls, config, feedCache, now) :
                \E r \in {search_feeds(req.topic, req.sources, limit, config,
                                        feedCache, now, outcomes)} :
                    /\ feedCache' = r.cache
                    /\ last' = [op |-> "search_feeds", req |-> req, limit |-> limit,
                                config |-> config, outcomes |-> outcomes,
                                before |-> feedCache, at |-> now,
                                result |-> r.result, errors |-> r.errors, log |-> r.log,
                                collected |-> r.collected, feed_urls |-> r.feed_urls]
                    /\ UNCHANGED <<now, ticks, articleCache, disk, inv, written>>

SearchFeeds == SearchFeedsOf(FeedRequests)

\* main.py: the tool handler returns the result to the caller
Deliver ==
    /\ last # Idle
    /\ last' = Idle
    /\ UNCHANGED <<now, ticks, feedCache, articleCache, disk, inv, written>>

NextArticle == Tick \/ TamperArticle \/ FetchArticle \/ Deliver

NextFeeds == Tick \/ TamperFeed \/ SearchFeeds \/ Deliver

SpecArticle == Init /\ [][NextArticle]_vars

SpecFeeds == Init /\ [][NextFeeds]_vars

\* both operations on one cache directory, the clock standing still
NextStill == TamperFeed \/ TamperArticle \/ SearchFeeds \/ FetchArticle \/ Deliver

SpecStill == Init /\ [][NextStill]_vars

\* deduplicate_articles applied to each input list
InitDedup ==
    /\ now = 0
    /\ ticks = 0
    /\ feedCache = [f \in FeedUrls |-> Absent]
    /\ articleCache = [k \in ArticleKeys |-> Absent]
    /\ NoRace
    /\ last \in {[op |-> "input", articles |-> l] : l \in DedupInputs}

Deduplicate ==
    /\ last.op = "input"
    /\ \E out \in {deduplicate_articles(last.articles)} :
          last' = [op |-> "deduplicate_articles", articles |-> last.articles,
                   out |-> out, again |-> deduplicate_articles(out)]
    /\ UNCHANGED <<now, ticks, feedCache, articleCache, disk, inv, written>>

NextDedup == Deduplicate

SpecDedup == InitDedup /\ [][NextDedup]_vars

\* normalize_url applied to each input string, and again to its own output
InitUrl ==
    /\ now = 0
    /\ ticks = 0
    /\ feedCache = [f \in FeedUrls |-> Absent]
    /\ articleCache = [k \in ArticleKeys |-> Absent]
    /\ NoRace
    /\ last \in {[op |-> "url", url |-> u] : u \in UrlInputs}

NormalizeUrl ==
    /\ last.op = "url"
    /\ last' = [op |-> "normalize_url", url |-> last.url,
                once |-> normalize_url(last.url),
                twice |-> normalize_url(normalize_url(last.url))]
    /\ UNCHANGED <<now, ticks, feedCache, articleCache, disk, inv, written>>

NextUrl == NormalizeUrl

SpecUrl == InitUrl /\ [][NextUrl]_vars

\* rank_articles applied to each input; the ranker is called only when the
\* client is available
InitRank ==
    /\ now = 0
    /\ ticks = 0
    /\ feedCache = [f \in FeedUrls |-> Absent]
    /\ articleCache = [k \in ArticleKeys |-> Absent]
    /\ NoRace
    /\ last \in {[op |-> "rank_input", items |-> sc.items, topic |-> sc.topic,
                  config |-> sc.config, llm |-> sc.llm] :
                    sc \in {s \in RankScenarios :
                              (s.llm = NotAsked) <=>
                                  (s.config.llm = MalformedLlm
                                   \/ ~is_available(s.config.llm))}}

RankArticles ==
    /\ last.op = "rank_input"
    /\ \E r \in {rank_articles(last.items, last.topic, last.config, RankToday, last.llm)} :
          last' = [op |-> "rank_articles", items |-> last.items, topic |-> last.topic,
                   config |-> last.config, llm |-> last.llm,
                   result |-> r.result, scores |-> r.scores,
                   top_candidates |-> r.top_candidates, calls |-> r.calls]
    /\ UNCHANGED <<now, ticks, feedCache, articleCache, disk, inv, written>>

NextRank == RankArticles

SpecRank == InitRank /\ [][NextRank]_vars

\* search_feeds called on each (topic, sources, configuration) with an empty
\* cache directory and every request failing
InitResolve ==
    /\ now = 0
    /\ ticks = 0
    /\ feedCache = [f \in FeedUrls |-> Absent]
    /\ articleCache = [k \in ArticleKeys |-> Absent]
    /\ NoRace
    /\ last \in {[op |-> "search_input", req |-> [topic |-> i.topic, sources |-> i.sources],
                  config |-> i.config] : i \in ResolveInputs}

SearchOffline ==
    /\ last.op = "search_input"
    /\ \E r \in {search_feeds(last.req.topic, last.req.sources, 3, last.config,
                              feedCache, now, [f \in FeedUrls |-> NetError])} :
          /\ feedCache' = r.cache
          /\ last' = [op |-> "search_feeds", req |-> last.req, limit |-> 3,
                      config |-> last.config, outcomes |-> [f \in FeedUrls |-> NetError],
                      before |-> feedCache, at |-> now,
                      result |-> r.result, errors |-> r.errors, log |-> r.log,
                      collected |-> r.collected, feed_urls |-> r.feed_urls]
    /\ UNCHANGED <<now, ticks, articleCache, disk, inv, written>>

NextResolve == SearchOffline

SpecResolve == InitResolve /\ [][NextResolve]_vars

\* the steps of one invocation on the cache file of feedA (tools.py 77-154),
\* taken by process p; the other processes may step in between
RaceConfig == ConfigWith({})

\* the invocation reaches the feed
RaceStart(p) ==
    /\ inv[p].pc = "idle"
    /\ inv[p].runs < MaxRuns
    /\ inv' = [inv EXCEPT ![p] = [pc |-> "check", runs |-> @.runs + 1,
                                  read |-> [out |-> "none"], todo |-> <<>>,
                                  pos |-> 0, ended |-> "none"]]
    /\ UNCHANGED <<now, ticks, feedCache, articleCache, last, disk, written>>

\* lines 80-92: the cache check; an exception that is not caught there is
\* recorded by the handler of lines 156-158 and the feed is skipped
RaceCheck(p) ==
    /\ inv[p].pc = "check"
    /\ LET chk == FeedCacheCheck(ReadFile(disk), now, RaceConfig.max_articles_per_feed)
       IN  inv' = [inv EXCEPT ![p] =
                     IF chk.out = "hit"
                     THEN [@ EXCEPT !.pc = "idle", !.ended = "returned",
                                    !.read = [out |-> "hit", articles |-> chk.articles]]
                     ELSE IF chk.out = "raise"
                     THEN [@ EXCEPT !.pc = "idle", !.ended = "error_recorded",
                                    !.read = [out |-> "raise"]]
                     ELSE [@ EXCEPT !.pc = "fetch", !.read = [out |-> "miss"]]]
    /\ UNCHANGED <<now, ticks, feedCache, articleCache, last, disk, written>>

\* lines 96-146: the request, the parse and the loop over the entries
RaceFetch(p) ==
    /\ inv[p].pc = "fetch"
    /\ \E outcome \in FeedOutcomes("feedA") :
          inv' = [inv EXCEPT ![p] =
                    IF outcome.kind # "ok"
                    THEN [@ EXCEPT !.pc = "idle", !.ended = "error_recorded"]
                    ELSE LET built == EntriesLoop(
                                 Take(outcome.entries, RaceConfig.max_articles_per_feed),
                                 "feedA", RaceConfig.exclude_domains, now,
                                 [feed_articles |-> <<>>, errors |-> <<>>])
                         IN  [@ EXCEPT !.pc = "open",
                                       !.todo = Serialize([timestamp |-> isoformat(now),
                                                           articles |-> built.feed_articles])]]
    /\ UNCHANGED <<now, ticks, feedCache, articleCache, last, disk, written>>

\* line 153: open(cache_path, 'w') truncates the file
RaceOpen(p) ==
    /\ inv[p].pc = "open"
    /\ disk' = [exists |-> TRUE, blocks |-> <<>>]
    /\ written' = written \cup {JsonLoad(inv[p].todo).val.d}
    /\ inv' = [inv EXCEPT ![p] = [@ EXCEPT !.pc = "write", !.pos = 0]]
    /\ UNCHANGED <<now, ticks, feedCache, articleCache, last>>

\* line 154: json.dump writes the next block at the offset of this writer
RaceWrite(p) ==
    /\ inv[p].pc = "write"
    /\ disk' = [exists |-> TRUE,
                blocks |-> WriteAt(disk.blocks, inv[p].pos, inv[p].todo[inv[p].pos + 1])]
    /\ inv' = [inv EXCEPT ![p] =
                  IF @.pos + 1 = Len(@.todo)
                  THEN [@ EXCEPT !.pos = @ + 1, !.pc = "idle", !.ended = "returned"]
                  ELSE [@ EXCEPT !.pos = @ + 1]]
    /\ UNCHANGED <<now, ticks, feedCache, articleCache, last, written>>

NextRace ==
    \E p \in Procs :
        RaceStart(p) \/ RaceCheck(p) \/ RaceFetch(p) \/ RaceOpen(p) \/ RaceWrite(p)

SpecRace == Init /\ [][NextRace]_vars

Next ==
    \/ Tick \/ TamperFeed \/ TamperArticle \/ SearchFeeds \/ FetchArticle \/ Deliver
    \/ NextRace

Spec == Init /\ [][Next]_vars

(***************************************************************************)
(* Properties                                                              *)
(***************************************************************************)
IsFetch == last.op = "fetch_article"
IsSearch == last.op = "search_feeds"
IsDedup == last.op = "deduplicate_articles"

\* the cache file of the article that the invocation in progress asked for
ArticleFileNow == articleCache[ArticleCacheKey(last.rawurl)]

\* a cache file that a successful fetch_article wrote
WrittenByFetch(file) ==
    /\ file.kind = "json"
    /\ file.val.t = "dict"
    /\ "extraction_method" \in DOMAIN file.val.d

\* C1: a fetch_article that finds the entry written by an earlier successful
\* fetch_article of the same normalized URL, less than cache_ttl seconds
\* old, returns exactly that payload and issues no HTTP request.
C1_CacheRoundTrip ==
    (/\ IsFetch
     /\ WrittenByFetch(last.before)
     /\ last.at - last.before.val.d.fetched_at.at < cache_ttl)
    => /\ last.net = 0
       /\ last.result = Return(last.before.val.d)

PrimaryKept(primary) ==
    /\ primary.kind = "json"
    /\ "text" \in DOMAIN primary.d
    /\ Len(primary.d.text) > 200

\* C2: when the page was fetched, the primary output is kept iff it parsed
\* and its text is longer than 200 characters; otherwise nothing of it is
\* used and the article returned is the one the fallback stage built, tagged
\* with the fallback stage, whatever the length of its text (a fallback stage
\* that raises yields a failure, never the primary output).
C2_SufficiencyGate ==
    (IsFetch /\ last.http = "ok")
    => /\ last.result.kind = "return"
       /\ IF PrimaryKept(last.primary)
          THEN /\ last.result.value.success
               /\ last.result.value.extraction_method = "trafilatura"
               /\ last.result.value.text = last.primary.d.text
               /\ last.result.value.title = last.primary.d.title
          ELSE IF last.fallback.kind = "ok"
          THEN /\ last.result.value.success
               /\ last.result.value.extraction_method = "readability"
               /\ last.result.value.text = clean_text(last.fallback.text_content)
               /\ last.result.value.title = clean_text(last.fallback.title)
          ELSE ~last.result.value.success

\* a primary text of exactly 200 characters was discarded for a fallback
\* article
C2_Witness ==
    /\ IsFetch
    /\ last.http = "ok"
    /\ last.primary.kind = "json"
    /\ "text" \in DOMAIN last.primary.d
    /\ Len(last.primary.d.text) = 200
    /\ last.result.kind = "return"
    /\ last.result.value.success
    /\ last.result.value.extraction_method = "readability"
    /\ Len(last.result.value.text) < 200

PrimaryHasNoText(primary) ==
    \/ primary.kind # "json"
    \/ "text" \notin DOMAIN primary.d
    \/ primary.d.text = <<>>

\* C3: when neither extraction stage finds any text, fetch_article returns
\* the "no content extracted" failure and leaves the cache file as it was.
C3_NoContentIsFailure ==
    (/\ IsFetch
     /\ last.http = "ok"
     /\ PrimaryHasNoText(last.primary)
     /\ last.fallback.kind = "ok"
     /\ clean_text(last.fallback.text_content) = <<>>)
    => /\ last.result.kind = "return"
       /\ ~last.result.value.success
       /\ last.result.value.error = ErrNoContent
       /\ ArticleFileNow = last.before

\* C4: no operation ends by raising; every result is a returned object.
C4_NoExceptionEscapes ==
    (IsFetch \/ IsSearch) => last.result.kind = "return"

\* the order the specification asks for: dated articles by date descending,
\* then the undated ones
DatedFirst(articles) ==
    SortDesc(<<>>, SelectSeq(articles, LAMBDA a : a.published # NoDate))
    \o SelectSeq(articles, LAMBDA a : a.published = NoDate)

\* C5: search_feeds returns the first limit articles of the deduplicated
\* collection ordered by date descending with the undated articles last.
C5_SortedUndatedLast ==
    (IsSearch /\ last.feed_urls # <<>>)
    => /\ last.result.kind = "return"
       /\ last.result.value.articles =
              Take(DatedFirst(deduplicate_articles(last.collected)), last.limit)

FailedHow == {"fetch_failed", "parse_failed", "cache_error"}

\* C6: when a feed fails, the failure is in the returned errors, every feed
\* of the request was still processed, and the articles of the other feeds
\* are returned.
C6_PerFeedIsolation ==
    (IsSearch /\ \E i \in 1..Len(last.log) : last.log[i].how \in FailedHow)
    => /\ Len(last.log) = Len(Take(last.feed_urls, 5))
       /\ last.result.kind = "return"
       /\ \A i \in 1..Len(last.log) :
              last.log[i].how \in FailedHow =>
                  \E k \in 1..Len(last.result.value.errors) :
                      last.result.value.errors[k].feed = last.log[i].feed
       /\ \A i \in 1..Len(last.result.value.articles) :
              \E k \in 1..Len(last.collected) :
                  last.collected[k] = last.result.value.articles[i]
       /\ last.collected # <<>> => last.result.value.articles # <<>>

NearDuplicateTitles(a, b) ==
    LET ta == Lower(clean_text(a.title))
        tb == Lower(clean_text(b.title))
    IN  /\ normalize_url(a.url) # normalize_url(b.url)
        /\ Len(ta) > 20
        /\ Len(tb) > 20
        /\ Take(ta, 50) = Take(tb, 50)

\* C7: of two articles with distinct URLs whose normalized titles are longer
\* than 20 characters and agree on their first 50 characters,
\* deduplicate_articles keeps only the first.
C7_NearDuplicateTitles ==
    (/\ IsDedup
     /\ Len(last.articles) = 2
     /\ NearDuplicateTitles(last.articles[1], last.articles[2]))
    => last.out = <<last.articles[1]>>

\* C8 as stated: of two articles with the same normalized URL, the empty
\* URL included, exactly the first is in the output.
C8_AnyUrlPair ==
    (/\ IsDedup
     /\ Len(last.articles) = 2
     /\ normalize_url(last.articles[1].url) = normalize_url(last.articles[2].url))
    => last.out = <<last.articles[1]>>

\* C8, amended: of two articles with the same non-empty normalized URL
\* exactly the first is in the output, and no output holds two articles
\* with the same non-empty normalized URL.
C8_UrlDedup ==
    IsDedup
    => /\ (/\ Len(last.articles) = 2
           /\ normalize_url(last.articles[1].url) # <<>>
           /\ normalize_url(last.articles[1].url) = normalize_url(last.articles[2].url))
          => last.out = <<last.articles[1]>>
       /\ \A i, j \in 1..Len(last.out) :
              (/\ i # j
               /\ normalize_url(last.out[i].url) = normalize_url(last.out[j].url))
              => normalize_url(last.out[i].url) = <<>>

\* two different URL strings with one normalized form, different titles:
\* only the first article is kept
C8_Witness ==
    /\ IsDedup
    /\ Len(last.articles) = 2
    /\ last.articles[1].url # last.articles[2].url
    /\ normalize_url(last.articles[1].url) # <<>>
    /\ normalize_url(last.articles[1].url) = normalize_url(last.articles[2].url)
    /\ Lower(clean_text(last.articles[1].title)) # Lower(clean_text(last.articles[2].title))
    /\ last.out = <<last.articles[1]>>

\* a feed cache file of the expected structure
ReadableEntry(file) ==
    /\ file.kind = "json"
    /\ file.val.t = "dict"
    /\ {"timestamp", "articles"} \subseteq DOMAIN file.val.d
    /\ file.val.d.timestamp.t = "iso"

EntryAge(file) == last.at - file.val.d.timestamp.at

\* C9: a processed feed is served from its cache file, without an HTTP
\* request, iff the file is a readable entry with now - timestamp < cache_ttl;
\* a readable entry with now - timestamp >= cache_ttl is a miss: the feed is
\* requested again and, when it parses, the file is overwritten with the
\* timestamp of this invocation.
C9_FeedCacheValidity ==
    IsSearch
    => \A i \in 1..Len(last.log) :
         LET e == last.log[i]
             file == last.before[e.feed]
         IN  /\ e.how = "hit" <=> (ReadableEntry(file) /\ EntryAge(file) < cache_ttl)
             /\ e.how = "hit" =>
                   /\ e.net = 0
                   /\ feedCache[e.feed] = file
                   /\ \A k \in 1..Len(Take(file.val.d.articles, last.config.max_articles_per_feed)) :
                          \E m \in 1..Len(last.collected) :
                              last.collected[m] = file.val.d.articles[k]
             /\ (ReadableEntry(file) /\ EntryAge(file) >= cache_ttl) =>
                   /\ e.net = 1
                   /\ last.outcomes[e.feed].kind = "ok" =>
                         /\ e.how = "fetched"
                         /\ feedCache[e.feed].kind = "json"
                         /\ feedCache[e.feed].val.d.timestamp = isoformat(last.at)

\* an entry exactly cache_ttl seconds old was fetched again and overwritten
C9_Witness ==
    /\ IsSearch
    /\ \E i \in 1..Len(last.log) :
         LET e == last.log[i]
             file == last.before[e.feed]
         IN  /\ ReadableEntry(file)
             /\ EntryAge(file) = cache_ttl
             /\ e.how = "fetched"
             /\ feedCache[e.feed].val.d.timestamp = isoformat(last.at)

NoBadEntry(outcome, max_per_feed) ==
    /\ outcome.kind = "ok"
    /\ \A k \in 1..Len(Take(outcome.entries, max_per_feed)) : ~outcome.entries[k].bad

\* C10: a cache file that is not JSON makes both operations behave as if the
\* file were absent: the network is asked, the result, the errors and the
\* per-feed steps are those of the same invocation without the file, no
\* error is recorded for the file, and a successful fetch overwrites it.
C10_CorruptIsMiss ==
    /\ (IsFetch /\ last.before = Garbage) =>
          LET asif == fetch_article(last.rawurl, Absent, last.at,
                                    last.http, last.primary, last.fallback)
          IN  /\ last.net = 1
              /\ last.result.kind = "return"
              /\ last.result = asif.result
              /\ IF last.result.value.success
                 THEN ArticleFileNow = JsonFile(JsonDict(last.result.value))
                 ELSE ArticleFileNow = Garbage
    /\ IsSearch =>
          \A i \in 1..Len(last.log) :
            LET e == last.log[i]
                asif == search_feeds(last.req.topic, last.req.sources, last.limit,
                                     last.config, [last.before EXCEPT ![e.feed] = Absent],
                                     last.at, last.outcomes)
            IN  last.before[e.feed] = Garbage =>
                  /\ e.net = 1
                  /\ e.how \in {"fetched", "fetch_failed", "parse_failed"}
                  /\ last.result = asif.result
                  /\ last.errors = asif.errors
                  /\ last.log = asif.log
                  /\ NoBadEntry(last.outcomes[e.feed], last.config.max_articles_per_feed) =>
                        /\ \A k \in 1..Len(last.errors) : last.errors[k].feed # e.feed
                        /\ feedCache[e.feed].kind = "json"
                        /\ feedCache[e.feed].val.d.timestamp = isoformat(last.at)
                  /\ e.how # "fetched" => feedCache[e.feed] = Garbage

\* fetch_article found a file that is not JSON, fetched the page and
\* replaced the file by the article
C10_Witness ==
    /\ IsFetch
    /\ last.before = Garbage
    /\ last.net = 1
    /\ last.result.value.success
    /\ ArticleFileNow = JsonFile(JsonDict(last.result.value))

\* a cache file that is JSON but lacks a parsable string timestamp
NoTimestamp(file) ==
    /\ file.kind = "json"
    /\ \/ file.val.t # "dict"
       \/ "timestamp" \notin DOMAIN file.val.d
       \/ file.val.d.timestamp.t # "iso"

\* C11: a cache file that is JSON of the wrong structure is a miss and not
\* an error: fetch_article requests the page and raises nothing, and
\* search_feeds requests the feed and records no error on account of the file.
C11_WrongShapeIsMiss ==
    /\ (IsFetch /\ NoTimestamp(last.before)) =>
          /\ last.net = 1
          /\ last.result.kind = "return"
    /\ IsSearch =>
          \A i \in 1..Len(last.log) :
            LET e == last.log[i]
                file == last.before[e.feed]
            IN  (file.kind = "json" /\ ~ReadableEntry(file)) =>
                  /\ e.net = 1
                  /\ e.how # "cache_error"

HttpFailed == IsFetch /\ last.http \in HttpErrors \cup {"MissingSchema"}

\* C12: when the HTTP request of fetch_article fails, no extraction stage is
\* run and the operation returns (does not raise) the failure object with
\* success false, the text of the triggering error in the message, and the
\* normalized URL.
C12_HttpFailure ==
    HttpFailed
    => /\ last.ran = <<>>
       /\ last.result.kind = "return"
       /\ ~last.result.value.success
       /\ last.result.value.error.text = last.http
       /\ last.result.value.url = normalize_url(last.rawurl)

\* a non-2xx answer for a URL given without scheme
C12_Witness ==
    /\ IsFetch
    /\ last.http = "HTTPError"
    /\ last.rawurl # normalize_url(last.rawurl)
    /\ last.net = 1
    /\ last.result.kind = "return"
    /\ ~last.result.value.success

\* C15: normalize_url is idempotent on every non-empty string.
C15_Idempotent ==
    (last.op = "normalize_url" /\ last.url # <<>>) => last.twice = last.once

\* C16: one search_feeds invocation processes the first five feeds of the
\* resolved list, in order, and no other feed, whatever the limit.
C16_FiveFeedCap ==
    IsSearch
    => /\ Len(last.log) <= 5
       /\ Len(last.log) = Len(Take(last.feed_urls, 5))
       /\ \A i \in 1..Len(last.log) : last.log[i].feed = last.feed_urls[i]
       /\ \A f \in FeedUrls :
              (\A i \in 1..Len(last.log) : last.log[i].feed # f)
              => feedCache[f] = last.before[f]

\* six feeds were resolved from the topic, the sixth has a fresh cache entry
\* and is not read
C16_Witness ==
    /\ IsSearch
    /\ last.req.sources = <<>>
    /\ Len(last.feed_urls) = 6
    /\ Len(last.log) = 5
    /\ ReadableEntry(last.before[last.feed_urls[6]])
    /\ \A i \in 1..Len(last.log) : last.log[i].how # "hit"

\* C17: no article returned by search_feeds has a domain of the exclusion
\* list of the configuration of that invocation, whether its feed was fetched
\* or served from the cache.
C17_NoExcludedDomain ==
    (IsSearch /\ last.result.kind = "return")
    => \A i \in 1..Len(last.result.value.articles) :
           last.result.value.articles[i].domain \notin last.config.exclude_domains

\* C18: search_feeds returns success false iff no source was resolved; with
\* at least one source it returns success true with an articles list and an
\* errors list, even when every feed failed.
C18_SuccessIffSources ==
    IsSearch
    => /\ last.result.kind = "return"
       /\ last.result.value.success <=> (last.feed_urls # <<>>)
       /\ last.feed_urls # <<>> =>
             /\ {"articles", "errors"} \subseteq DOMAIN last.result.value
             /\ last.result.value.errors = last.errors

\* C19: whatever the interleaving of the invocations on one cache file, a
\* read is a hit that yields the complete payload of one of the writers or a
\* miss followed by a new request, and no invocation ends with an error
\* that is not handled.
C19_RaceTolerated ==
    \A p \in Procs :
        /\ inv[p].read.out \in {"none", "miss", "hit"}
        /\ inv[p].ended \in {"none", "returned", "error_recorded"}
        /\ inv[p].read.out = "miss" => inv[p].pc # "idle"
                                       \/ inv[p].ended \in {"returned", "error_recorded"}
        /\ inv[p].read.out = "hit" =>
              \E w \in written :
                  inv[p].read.articles =
                      Take(w.articles, RaceConfig.max_articles_per_feed)

IsRank == last.op = "rank_articles"

\* the place of item i in the order by score descending, equal scores in
\* input order: one more than the number of items that go before it
HeuristicPlace(scores, i) ==
    1 + Cardinality({j \in 1..Len(scores) :
                        scores[j] > scores[i] \/ (scores[j] = scores[i] /\ j < i)})

HeuristicOrder(items, scores) ==
    [k \in 1..Len(items) |->
        items[CHOOSE i \in 1..Len(items) : HeuristicPlace(scores, i) = k]]

\* every index that the response of the ranker states, None when no index
\* list can be read from it
StatedIndices(response) ==
    LET matches == {i \in 1..Len(response) : ArrayMatchAt(response, i)}
    IN  IF matches # {}
        THEN LET i == CHOOSE m \in matches : \A n \in matches : m <= n
             IN  LoadIntArray(SubSeq(response, i + 1,
                                     RunEnd(response, i + 1, ArrayChars)))
        ELSE IF FindNumbers(response) # <<>> THEN ListValue(FindNumbers(response))
             ELSE NoneValue

\* the candidates selected by the stated indices that are positions of the
\* candidate list, in the stated order
SelectedBy(indices, candidates) ==
    LET usable == SelectSeq(indices, LAMBDA i : i < Len(candidates))
    IN  [k \in 1..Len(usable) |-> candidates[usable[k] + 1]]

\* the refined order of the last invocation, empty when the ranker was not
\* asked, returned nothing or stated no usable index
RefinedOrder ==
    IF last.llm = NotAsked \/ last.llm = NoneValue THEN <<>>
    ELSE LET stated == StatedIndices(last.llm.text)
         IN  IF stated = NoneValue THEN <<>>
             ELSE SelectedBy(stated.v, Take(HeuristicOrder(last.items, last.scores), 15))

\* C13: rank_articles returns at most 5 articles: the first 5 of the refined
\* order when the ranker is configured, succeeds and states at least one
\* usable index, and in every other case the first 5 of the input sorted by
\* heuristic score descending, equal scores in input order.
C13_TopFive ==
    IsRank
    => /\ Len(last.result) <= 5
       /\ last.result = IF RefinedOrder # <<>>
                        THEN Take(RefinedOrder, 5)
                        ELSE Take(HeuristicOrder(last.items, last.scores), 5)

\* C14: of the indices that the ranker returns, those that are not a
\* position in the candidate list (at most 15 candidates) are dropped and
\* the others select candidates in the returned order; a response from which
\* no index list can be parsed gives the heuristic order, without an error.
C14_Refinement ==
    (IsRank /\ last.llm # NotAsked /\ last.llm # NoneValue)
    => LET stated == StatedIndices(last.llm.text)
           candidates == Take(HeuristicOrder(last.items, last.scores), 15)
       IN  /\ Len(candidates) <= 15
           /\ stated = NoneValue
                => last.result = Take(HeuristicOrder(last.items, last.scores), 5)
           /\ (stated # NoneValue /\ SelectedBy(stated.v, candidates) # <<>>)
                => last.result = Take(SelectedBy(stated.v, candidates), 5)

\* the number of filter keywords of the configuration found in a text
FilterHits(text) ==
    Cardinality({k \in 1..Len(last.config.keywords_filter) :
                    IsSubstring(Lower(last.config.keywords_filter[k]), Lower(text))})

\* the score of an item of the last invocation
ScoreOf(item) == last.scores[CHOOSE i \in 1..Len(last.items) : last.items[i] = item]

\* C20: the heuristic score is additive and is not clamped: every filter
\* keyword takes 20 off when it is in the title and 10 when it is in the
\* summary, cumulatively, the total may be negative, and the heuristic order
\* follows the total, negative or not.
C20_AdditiveNoClamp ==
    IsRank
    => /\ \A i \in 1..Len(last.items) :
              last.scores[i] =
                  ScoreItem(last.items[i], last.topic,
                            [last.config EXCEPT !.keywords_filter = <<>>], RankToday)
                  - ScoreScale * (20 * FilterHits(last.items[i].title)
                                  + 10 * FilterHits(last.items[i].summary))
       /\ last.llm = NotAsked
            => \A a, b \in 1..Len(last.result) :
                   a < b => ScoreOf(last.result[a]) >= ScoreOf(last.result[b])

\* an article with two filter keywords in its title, of today and on the
\* topic, has a negative score and is returned after an older article that
\* matches neither the topic nor a keyword
C20_Witness ==
    /\ IsRank
    /\ last.llm = NotAsked
    /\ \E i, j \in 1..Len(last.items) :
          /\ FilterHits(last.items[i].title) = 2
          /\ IsSubstring(Lower(last.topic), Lower(last.items[i].title))
          /\ last.items[i].published # NoDate /\ last.items[j].published # NoDate
          /\ last.items[j].published.local < last.items[i].published.local
          /\ ~IsSubstring(Lower(last.topic), Lower(last.items[j].title))
          /\ ~IsSubstring(Lower(last.topic), Lower(last.items[j].summary))
          /\ FilterHits(last.items[j].title) = 0
          /\ FilterHits(last.items[j].summary) = 0
          /\ last.scores[i] < 0
          /\ last.scores[i] = 0 - 23 * ScoreScale
          /\ \E a, b \in 1..Len(last.result) :
                a < b /\ last.result[a] = last.items[j] /\ last.result[b] = last.items[i]

\* the articles of a list are pairwise distinct
PairwiseDistinct(s) == \A a, b \in 1..Len(s) : a # b => s[a] # s[b]

\* C29: for a list of pairwise distinct items and every response of the
\* ranker, repeated indices included, the result of rank_articles is a list
\* of pairwise distinct articles, each one of the top-15 heuristic candidates.
C29_DistinctCandidates ==
    (IsRank /\ PairwiseDistinct(last.items))
    => /\ PairwiseDistinct(last.result)
       /\ \A a \in 1..Len(last.result) :
              \E k \in 1..Len(Take(HeuristicOrder(last.items, last.scores), 15)) :
                  last.result[a] = HeuristicOrder(last.items, last.scores)[k]

\* 10 * 0.9 ^ age in hundredths, for an age in whole days
Decay(age) ==
    IF age >= 0 THEN (1000 * Power(9, age)) \div Power(10, age)
    ELSE (1000 * Power(10, 0 - age)) \div Power(9, 0 - age)

\* what the publish date of item i adds to its score
RecencyPart(i) ==
    last.scores[i]
    - ScoreItem([last.items[i] EXCEPT !.published = NoDate], last.topic, last.config, RankToday)

\* C25: an article whose published value is a date, with or without a UTC
\* offset, past or future, gets 10 * 0.9 ^ (age in whole days), a value
\* between 0 and 10, added to its score; an absent or unparseable date adds 0.
C25_Recency ==
    IsRank
    => \A i \in 1..Len(last.items) :
           IF last.items[i].published # NoDate /\ last.items[i].published.t = "iso"
           THEN /\ RecencyPart(i) = Decay(RankToday - last.items[i].published.local)
                /\ RecencyPart(i) >= 0
                /\ RecencyPart(i) <= 10 * ScoreScale
           ELSE RecencyPart(i) = 0

\* the articles of s at the positions of S, in the order of s
KeepAt(s, S) ==
    [k \in 1..Cardinality(S) |->
        s[CHOOSE i \in S : Cardinality({j \in S : j < i}) = k - 1]]

\* two articles with the same non-empty normalized URL or the same non-empty
\* normalized title
SharesKey(a, b) ==
    \/ normalize_url(a.url) # <<>> /\ normalize_url(a.url) = normalize_url(b.url)
    \/ /\ Lower(clean_text(a.title)) # <<>>
       /\ Lower(clean_text(a.title)) = Lower(clean_text(b.title))

\* the positions of the articles that share no key with an earlier article
FirstOccurrences(s) ==
    {i \in 1..Len(s) : \A j \in 1..(i - 1) : ~SharesKey(s[j], s[i])}

\* C30: the output of deduplicate_articles is the input restricted to a set
\* of positions, in input order, that holds every article sharing no
\* non-empty normalized URL or title with an earlier one; no two articles of
\* the output share such a URL or title; deduplicating the output again
\* changes nothing.
C30_FirstOccurrences ==
    IsDedup
    => /\ \E S \in SUBSET (1..Len(last.articles)) :
              /\ last.out = KeepAt(last.articles, S)
              /\ FirstOccurrences(last.articles) \subseteq S
       /\ \A a, b \in 1..Len(last.out) :
              a # b => ~SharesKey(last.out[a], last.out[b])
       /\ last.again = last.out

Elements(s) == {s[i] : i \in 1..Len(s)}

\* the categories of the configuration that a topic selects: the ones whose
\* name is the topic, else the ones whose name contains the topic or is
\* contained in it, else "general"; letter case is ignored
SelectedCategories(topic, config_sources) ==
    LET named(P(_)) == {i \in 1..Len(config_sources) : P(Lower(config_sources[i].category))}
        same(c) == c = Lower(topic)
        partial(c) == IsSubstring(Lower(topic), c) \/ IsSubstring(c, Lower(topic))
        general(c) == c = <<"g","e","n","e","r","a","l">>
    IN  IF named(same) # {} THEN named(same)
        ELSE IF named(partial) # {} THEN named(partial)
        ELSE named(general)

TopicSources(topic, config_sources) ==
    UNION {Elements(config_sources[i].urls) : i \in SelectedCategories(topic, config_sources)}

\* C26: search_feeds uses a non-empty explicit sources list as it is; else
\* a given topic resolves to the sources of the category of that name, else
\* to those of all categories whose name contains the topic or is contained
\* in it, else to those of "general", else to nothing; with neither sources
\* nor topic the sources of the configured interests are used.
C26_ResolutionPriority ==
    IsSearch
    => IF last.req.sources # <<>> THEN last.feed_urls = last.req.sources
       ELSE IF last.req.topic # <<>>
       THEN Elements(last.feed_urls) = TopicSources(last.req.topic, last.config.sources)
       ELSE Elements(last.feed_urls) =
               UNION {TopicSources(last.config.interests[i], last.config.sources) :
                         i \in 1..Len(last.config.interests)}

\* the feed of log entry e was requested and its document was read: it has
\* an entry or it has no parse error
FetchedAndParsed(e) ==
    /\ e.net = 1
    /\ last.outcomes[e.feed].kind \in {"ok", "bozo"}
    /\ last.outcomes[e.feed].entries # <<>> \/ ~last.outcomes[e.feed].bozo

\* the articles of the entries of a document, among the first
\* max_articles_per_feed, that were built and are not of an excluded domain
BuiltAndKept(e) ==
    LET good == SelectSeq(Take(last.outcomes[e.feed].entries,
                               last.config.max_articles_per_feed),
                          LAMBDA en : /\ ~en.bad
                                      /\ extract_domain(en.link)
                                            \notin last.config.exclude_domains)
    IN  [k \in 1..Len(good) |-> BuildArticle(good[k], e.feed, last.at)]

\* C23: for every feed that is fetched and parsed with an entry or without a
\* parse error, search_feeds writes the cache file of the feed once, with
\* the time of the write as timestamp and with exactly the articles that
\* were built and passed the exclusion filter, also when entries of the feed
\* raised and are in the errors list.
C23_FeedCacheWrite ==
    IsSearch
    => \A i \in 1..Len(last.log) :
          FetchedAndParsed(last.log[i])
          => /\ last.log[i].how = "fetched"
             /\ Cardinality({j \in 1..Len(last.log) :
                                /\ last.log[j].feed = last.log[i].feed
                                /\ last.log[j].how = "fetched"}) = 1
             /\ feedCache[last.log[i].feed] =
                   JsonFile(JsonDict([timestamp |-> isoformat(last.at),
                                      articles |-> BuiltAndKept(last.log[i])]))

\* a feed with an entry that raised was written with its other article, at
\* a time after the start, over an older file
C23_Witness ==
    /\ IsSearch
    /\ last.at > 0
    /\ \E i \in 1..Len(last.log) :
          /\ FetchedAndParsed(last.log[i])
          /\ \E k \in 1..Len(Take(last.outcomes[last.log[i].feed].entries,
                                  last.config.max_articles_per_feed)) :
                 last.outcomes[last.log[i].feed].entries[k].bad
          /\ \E k \in 1..Len(last.errors) :
                 last.errors[k] = ErrorEntry(last.log[i].feed)
          /\ BuiltAndKept(last.log[i]) # <<>>
          /\ last.before[last.log[i].feed] # Absent
          /\ feedCache[last.log[i].feed] # last.before[last.log[i].feed]

\* C27: a feed served from a valid cache entry leaves the file and its
\* timestamp as they were, so that the entry is no longer served once
\* cache_ttl seconds have passed since it was written, however often it was
\* read before.
C27_HitReadOnly ==
    IsSearch
    => \A i \in 1..Len(last.log) :
          LET e == last.log[i]
              file == last.before[e.feed]
          IN  /\ e.how = "hit" => (e.net = 0 /\ feedCache[e.feed] = file)
              /\ (ReadableEntry(file) /\ EntryAge(file) >= cache_ttl) => e.how # "hit"

\* an entry written by an earlier invocation is served one second before it
\* expires and is still the file of that invocation
C27_Witness ==
    /\ IsSearch
    /\ \E i \in 1..Len(last.log) :
          /\ last.log[i].how = "hit"
          /\ EntryAge(last.before[last.log[i].feed]) = cache_ttl - 1
          /\ last.before[last.log[i].feed].val.d.articles # <<>>
          /\ feedCache[last.log[i].feed] = last.before[last.log[i].feed]

\* C28: when the entry of a feed is stale and the feed is not fetched and
\* parsed again, none of the articles of the entry is collected or
\* returned, and the feed has an error in the errors list.
C28_StaleNeverServed ==
    IsSearch
    => \A i \in 1..Len(last.log) :
          LET e == last.log[i]
              file == last.before[e.feed]
          IN  (/\ ReadableEntry(file)
               /\ EntryAge(file) >= cache_ttl
               /\ last.outcomes[e.feed].kind # "ok")
              => /\ \A m \in 1..Len(last.collected) :
                        /\ last.collected[m].source_url # e.feed
                        /\ last.collected[m] \notin Elements(file.val.d.articles)
                 /\ last.result.kind = "return" =>
                        \A m \in 1..Len(last.result.value.articles) :
                            last.result.value.articles[m] \notin Elements(file.val.d.articles)
                 /\ \E k \in 1..Len(last.errors) : last.errors[k].feed = e.feed
                 /\ feedCache[e.feed] = file

\* the request for a feed whose entry with articles expired fails
C28_Witness ==
    /\ IsSearch
    /\ \E i \in 1..Len(last.log) :
          /\ ReadableEntry(last.before[last.log[i].feed])
          /\ EntryAge(last.before[last.log[i].feed]) >= cache_ttl
          /\ last.before[last.log[i].feed].val.d.articles # <<>>
          /\ last.outcomes[last.log[i].feed] = NetError
          /\ last.log[i].how = "fetch_failed"

(***************************************************************************)
(* llm_client.py: summarize_articles; tools.py: summarize_collection       *)
(***************************************************************************)
Quote == "\""

\* summary[1:-1] whenever the stripped text starts and ends with a quote
Unquote(summary) ==
    IF summary # <<>> /\ summary[1] = Quote /\ summary[Len(summary)] = Quote
    THEN SubSeq(summary, 2, Len(summary) - 1)
    ELSE summary

\* lines 56-76 of llm_client.py; response is what _call_llm returned, which
\* is None for every exception of the provider (lines 135-149)
summarize_articles(llm_config, response) ==
    IF ~is_available(llm_config) THEN NoneValue
    ELSE IF response = NoneValue \/ response.text = <<>> THEN NoneValue
    ELSE TextResponse(Unquote(Strip(response.text)))

\* the orders in which list(a_set) may enumerate a set
Orderings(S) ==
    {s \in [1..Cardinality(S) -> S] :
        \A i, j \in 1..Cardinality(S) : i # j => s[i] # s[j]}

\* article.get('source', article.get('domain', ''))
SourceOf(article) ==
    IF "source" \in DOMAIN article THEN article.source
    ELSE IF "domain" \in DOMAIN article THEN article.domain
    ELSE ""

\* lines 499-501: the titles of the articles that have one
RECURSIVE BulletPoints(_)
BulletPoints(articles) ==
    IF articles = <<>> THEN <<>>
    ELSE (IF Head(articles).title # <<>> THEN <<Head(articles).title>> ELSE <<>>)
         \o BulletPoints(Tail(articles))

\* lines 509-514: strftime("%B %d, %Y") of every published text that parses
RECURSIVE Dates(_)
Dates(articles) ==
    IF articles = <<>> THEN <<>>
    ELSE (IF Head(articles).published.t = "iso"
          THEN <<[t |-> "day", day |-> Head(articles).published.local]>>
          ELSE <<>>)
         \o Dates(Tail(articles))

\* lines 517-523: of the first three numbers found in the title and the
\* summary of an article, those of more than two characters
RECURSIVE KeyNumbers(_)
KeyNumbers(articles) ==
    IF articles = <<>> THEN <<>>
    ELSE SelectSeq(Take(Head(articles).numbers, 3), LAMBDA num : Len(num) > 2)
         \o KeyNumbers(Tail(articles))

\* lines 525-541: the text of the summary, as the parts appended to it
SummaryText(count, source_list, unique_dates, bullet_points, key_numbers) ==
    <<[part |-> "Daily News Summary", count |-> count]>>
    \o (IF source_list # <<>>
        THEN <<[part |-> "Sources", names |-> Take(source_list, 5)]>> ELSE <<>>)
    \o (IF unique_dates # <<>>
        THEN <<[part |-> "Coverage from", first |-> unique_dates[1],
                to |-> IF Len(unique_dates) > 1
                       THEN unique_dates[Len(unique_dates)] ELSE NoneValue]>>
        ELSE <<>>)
    \o <<[part |-> "Top Stories", bullets |-> Take(bullet_points, 10)]>>
    \o (IF key_numbers # <<>>
        THEN <<[part |-> "Key figures mentioned", numbers |-> Take(key_numbers, 5)]>>
        ELSE <<>>)

\* lines 480-555: the heuristic summary; source_list and unique_dates are
\* list(sources) and list(set(dates))
HeuristicSummary(collection, nowv, source_list, unique_dates) ==
    LET first == Take(collection, 10)
        bullet_points == BulletPoints(first)
        key_numbers == KeyNumbers(first)
    IN  [success |-> TRUE,
         summary |-> SummaryText(Len(collection), source_list, unique_dates,
                                 bullet_points, key_numbers),
         bullet_points |-> Take(bullet_points, 10),
         key_numbers |-> Take(key_numbers, 5),
         sources |-> source_list,
         date_range |-> Dates(first),
         article_count |-> Len(collection),
         method |-> "heuristic",
         timestamp |-> isoformat(nowv)]

SummarySources(collection) ==
    {SourceOf(a) : a \in Elements(Take(collection, 10))} \ {""}

SummaryDates(collection) == Elements(Dates(Take(collection, 10)))

\* the whole of summarize_collection: the results it may return and the
\* number of calls of the summarizer made
summarize_collection(collection, config, nowv, llm) ==
    IF collection = <<>>
    THEN {[result |-> [success |-> FALSE,
                       error |-> "No articles provided for summarization"],
           calls |-> 0]}
    ELSE LET \* lines 464-478: the constructor raising is caught and printed
             asked == config.llm # MalformedLlm /\ is_available(config.llm)
             summary == IF asked THEN summarize_articles(config.llm, llm)
                        ELSE NoneValue
         IN  IF summary # NoneValue /\ summary.text # <<>>
             THEN {[result |-> [success |-> TRUE, summary |-> summary.text,
                                article_count |-> Len(collection),
                                method |-> "llm",
                                timestamp |-> isoformat(nowv)],
                    calls |-> 1]}
             ELSE {[result |-> HeuristicSummary(collection, nowv, s, d),
                    calls |-> IF asked THEN 1 ELSE 0] :
                      s \in Orderings(SummarySources(collection)),
                      d \in Orderings(SummaryDates(collection))}

\* inputs of summarize_collection
DigestItem(title, source, local, numbers) ==
    [title |-> title, source |-> source, domain |-> "a.com",
     published |-> [t |-> "iso", local |-> local, off |-> "naive"],
     numbers |-> numbers]

DigestOne == DigestItem(<<"U","p"," ","2","5","0">>, "Wire", 2,
                        <<<<"2","5","0">>>>)
DigestTwo == DigestItem(<<"O","K">>, "Post", 3, <<>>)
DigestBare ==
    [title |-> <<>>, source |-> "", domain |-> "a.com", published |-> NoDate,
     numbers |-> <<>>]
DigestDomain ==
    [title |-> <<"4"," ","i","n"," ","1","0">>, domain |-> "b.org",
     published |-> [t |-> "garbage"],
     numbers |-> <<<<"4">>, <<"1","0">>>>]
DigestFigures ==
    [title |-> <<"N","o","w">>, source |-> "Wire",
     published |-> [t |-> "iso", local |-> 1, off |-> "naive"],
     numbers |-> <<<<"1",",","0","0","0">>, <<"7">>, <<"3",".","5">>,
                   <<"2","0","2","4">>>>]

DigestPool == {DigestOne, DigestTwo, DigestBare, DigestDomain, DigestFigures}

ElevenItems ==
    <<DigestBare, DigestBare, DigestBare, DigestBare, DigestBare, DigestBare,
      DigestBare, DigestBare, DigestBare, DigestBare, DigestOne>>

DigestInputs ==
    UNION {[1..n -> DigestPool] : n \in 0..MaxItems} \cup {ElevenItems}

SummaryResponses ==
    {NoneValue} \cup
    {TextResponse(r) : r \in
        {<<>>,
         <<"H","i">>,
         <<Quote,"H","i",Quote>>,
         <<Quote,Quote,"H","i",Quote,Quote>>,
         <<Quote,"H","i">>,
         <<" ","H","i","\n">>,
         <<" ",Quote,"H","i",Quote>>,
         <<" "," ">>,
         <<Quote>>,
         <<Quote,Quote>>}}

SummaryScenarios ==
    {[collection |-> c, config |-> [llm |-> l], llm |-> r] :
        c \in DigestInputs, l \in LlmConfigs,
        r \in SummaryResponses \cup {NotAsked}}

InitSummary ==
    /\ now = 0
    /\ ticks = 0
    /\ feedCache = [f \in FeedUrls |-> Absent]
    /\ articleCache = [k \in ArticleKeys |-> Absent]
    /\ NoRace
    /\ last \in {[op |-> "summary_input", collection |-> sc.collection,
                  config |-> sc.config, llm |-> sc.llm] :
                    sc \in {s \in SummaryScenarios :
                              (s.llm = NotAsked) <=>
                                  (s.collection = <<>>
                                   \/ s.config.llm = MalformedLlm
                                   \/ ~is_available(s.config.llm))}}

SummarizeCollection ==
    /\ last.op = "summary_input"
    /\ \E r \in summarize_collection(last.collection, last.config, now, last.llm) :
          last' = [op |-> "summarize_collection", collection |-> last.collection,
                   config |-> last.config, llm |-> last.llm, at |-> now,
                   result |-> r.result, calls |-> r.calls]
    /\ UNCHANGED <<now, ticks, feedCache, articleCache, disk, inv, written>>

NextSummary == SummarizeCollection

SpecSummary == InitSummary /\ [][NextSummary]_vars

IsSummary == last.op = "summarize_collection"

\* one enclosing pair of double quotes removed, nothing else changed
WithoutOnePair(text) ==
    IF Len(text) >= 2 /\ text[1] = Quote /\ text[Len(text)] = Quote
    THEN SubSeq(text, 2, Len(text) - 1)
    ELSE text

\* the summarizer is available and returned non-empty text
Delegated ==
    /\ last.config.llm # MalformedLlm
    /\ is_available(last.config.llm)
    /\ last.llm \notin {NoneValue, NotAsked}
    /\ last.llm.text # <<>>

PartsOf(summary) == {summary[i].part : i \in 1..Len(summary)}

\* the optional parts of the template are there exactly when the first ten
\* articles have a source, a date, a significant number
TemplateOf(collection, summary) ==
    LET first == Take(collection, 10)
    IN  /\ summary[1] = [part |-> "Daily News Summary", count |-> Len(collection)]
        /\ "Sources" \in PartsOf(summary) <=> SummarySources(collection) # {}
        /\ "Coverage from" \in PartsOf(summary) <=> SummaryDates(collection) # {}
        /\ "Key figures mentioned" \in PartsOf(summary) <=> KeyNumbers(first) # <<>>
        /\ \E i \in 1..Len(summary) :
              summary[i] = [part |-> "Top Stories",
                            bullets |-> BulletPoints(first)]

\* C21: summarize_collection returns for every collection a result with a
\* summary text and a method; the method is "llm" exactly when the summarizer
\* is available and returned non-empty text, and the summary is then that
\* text with one enclosing pair of double quotes removed; otherwise the
\* method is "heuristic" and the summary is the template without the parts
\* whose component is absent.
C21_NeverFails ==
    IsSummary =>
        /\ {"summary", "method"} \subseteq DOMAIN last.result
        /\ (last.result.method = "llm") <=> Delegated
        /\ last.result.method = "llm" =>
              last.result.summary = WithoutOnePair(last.llm.text)
        /\ last.result.method # "llm" =>
              /\ last.result.method = "heuristic"
              /\ TemplateOf(last.collection, last.result.summary)

(***************************************************************************)
(* One invocation of each of the four operations, on a cache directory     *)
(* that earlier invocations and a crash have left behind                   *)
(***************************************************************************)
\* written by an earlier search_feeds cache_ttl seconds ago, and one second
\* less than that ago
FeedFileStale == CacheData(0, <<BuildArticle(EntryNews, "feedA", 0)>>)
FeedFileFresh == CacheData(1, <<BuildArticle(EntryNews, "feedA", 1)>>)

\* written by an earlier fetch_article
ArticleFileAt(t) ==
    JsonFile(JsonDict(WithMetadata(
        PrimaryArticle([kind |-> "json",
                        d |-> [title |-> TitleShort, text |-> PrimaryLong]],
                       normalize_url(UrlA)), t)))

OnceFeedCaches ==
    {[f \in FeedUrls |-> IF f = "feedA" THEN a ELSE IF f = "feedB" THEN b ELSE Absent] :
        a \in {Absent, Garbage, FeedFileStale, FeedFileFresh},
        b \in {Absent, CacheData(0, <<>>)}}

OnceArticleCaches ==
    {[k \in ArticleKeys |-> IF k = ArticleCacheKey(UrlA) THEN a ELSE Absent] :
        a \in {Absent, Garbage, ArticleFileAt(0), ArticleFileAt(1)}}

\* the same feed listed twice is processed twice
OnceRequests ==
    FeedRequests \cup {[topic |-> <<>>, sources |-> <<"feedA", "feedA">>]}

InitOnce ==
    /\ now = cache_ttl
    /\ ticks = 0
    /\ NoRace
    /\ feedCache \in OnceFeedCaches
    /\ articleCache \in OnceArticleCaches
    /\ \/ last = Idle
       \/ /\ feedCache["feedA"] = FeedFileStale
          /\ articleCache[ArticleCacheKey(UrlA)] = ArticleFileAt(0)
          /\ \/ last \in {[op |-> "rank_input", items |-> sc.items, topic |-> sc.topic,
                           config |-> sc.config, llm |-> sc.llm] :
                             sc \in {s \in RankScenarios :
                                       /\ s.config.keywords_boost = <<>>
                                       /\ s.config.keywords_filter = <<>>
                                       /\ (s.llm = NotAsked) <=>
                                             (s.config.llm = MalformedLlm
                                              \/ ~is_available(s.config.llm))}}
             \/ last \in {[op |-> "summary_input", collection |-> sc.collection,
                           config |-> sc.config, llm |-> sc.llm] :
                             sc \in {s \in SummaryScenarios :
                                       (s.llm = NotAsked) <=>
                                           (s.collection = <<>>
                                            \/ s.config.llm = MalformedLlm
                                            \/ ~is_available(s.config.llm))}}

SearchOnce == SearchFeedsOf(OnceRequests)

NextOnce == SearchOnce \/ FetchArticle \/ RankArticles \/ SummarizeCollection

SpecOnce == InitOnce /\ [][NextOnce]_vars

\* fetch_article raised, or returned a result whose success is false
FetchFailed ==
    /\ IsFetch
    /\ \/ last.result.kind = "raise"
       \/ /\ "success" \in DOMAIN last.result.value
          /\ ~last.result.value.success

\* the request for the feed failed, or its document came with a parse error
\* and no entry
FeedFailed(f) ==
    /\ IsSearch
    /\ \/ last.outcomes[f].kind = "neterror"
       \/ /\ last.outcomes[f].kind \in {"bozo", "ok"}
          /\ last.outcomes[f].bozo
          /\ last.outcomes[f].entries = <<>>

FailureLeavesFile ==
    /\ FetchFailed => articleCache[ArticleCacheKey(last.rawurl)] = last.before
    /\ \A f \in FeedUrls : FeedFailed(f) => feedCache[f] = last.before[f]

\* a step of an operation removes no file
NoDelete ==
    /\ \A f \in FeedUrls : feedCache[f] # Absent => feedCache'[f] # Absent
    /\ \A k \in ArticleKeys : articleCache[k] # Absent => articleCache'[k] # Absent

\* C22: when fetch_article fails, and when a feed of search_feeds fails to
\* fetch or parses with an error and no entry, the cache file of that key is
\* as it was before the invocation, whether absent, stale or corrupt; and no
\* step of search_feeds, fetch_article, rank_articles or
\* summarize_collection removes a cache file.
C22_FailureKeepsCache == []FailureLeavesFile /\ [][NoDelete]_vars

C22_Witness ==
    /\ IsSearch
    /\ last.outcomes["feedA"] = Bozo
    /\ last.outcomes["feedB"] = NetError
    /\ last.before["feedA"] = Garbage
    /\ feedCache["feedA"] = Garbage
    /\ last.before["feedB"] = CacheData(0, <<>>)
    /\ feedCache["feedB"] = CacheData(0, <<>>)

====
